---- MODULE Spec2Model ----
(***************************************************************************)
(* A model of the Emacs-Lisp compatibility runtime of xyproto/runmacs      *)
(* (src/main.go): the document model (buffers, windows, window             *)
(* configurations), the match-data record with the literal and regexp      *)
(* searches, and keymaps.                                                  *)
(*                                                                         *)
(* Buffers and windows are Go pointers.  A buffer object is an index into  *)
(* `heap`; the table rt.buffers maps a name to such an index, and a window *)
(* or the match-data record may keep pointing at an object that has been   *)
(* removed from the table.  Text is a sequence of code points ([]rune);    *)
(* Go strings are sequences of bytes, obtained by EncodeString.            *)
(***************************************************************************)
EXTENDS Integers, Sequences, FiniteSets, TLC

VARIABLES heap,              \* every *elBuffer ever allocated, by object index
          buffers,           \* rt.buffers: name -> object index
          windows,           \* rt.windows: id -> elWindow
          selectedWindowID,  \* rt.selectedWindowID
          nextWindowID,      \* rt.nextWindowID
          matchData,         \* rt.matchData
          matchString,       \* rt.matchString
          matchInString,     \* rt.matchInString
          matchBuffer,       \* rt.matchBuffer (object index or Nil)
          configs,           \* the *elWindowConfiguration the dialect code holds:
                             \* the value of one variable, empty before it is set
          panicked,          \* a Go runtime panic has terminated the process
          last,              \* the primitive applied last and what it returned
          keymaps,           \* the el-keymap objects bound in the environment
          env,               \* rt.env: the variables bound in the program's frame
          errorParents,      \* rt.errorParents: condition name -> parent name
          funcByName,        \* rt.funcByName: function name -> function object
          loop,              \* the cl-loop under way: its clauses, counters and frame
          scanner,           \* preprocessElisp under way: its position, output and flags
          timers,            \* rt.timers: timer id -> period, callback, active, nextFire
          timerSeq,          \* rt.timerSeq: the number of the timer made last
          tick,              \* tickTimers under way: its time, the timers still to visit
          messages,          \* rt.messages
          walk,              \* conditionNameMatches under way: the name reached, the names seen
          providedFeatures,  \* rt.providedFeatures
          loadingFeatures,   \* rt.loadingFeatures
          loader             \* the requires and loads under way, innermost first

docVars == <<heap, buffers, windows, selectedWindowID, nextWindowID, configs>>
matchVars == <<matchData, matchString, matchInString, matchBuffer>>
kmVars == <<keymaps>>
tmVars == <<timers, timerSeq, tick, messages>>
ldVars == <<walk, providedFeatures, loadingFeatures, loader>>
evVars == <<env, errorParents, funcByName, loop, scanner, timers, timerSeq, tick,
            messages, walk, providedFeatures, loadingFeatures, loader>>
vars == <<heap, buffers, windows, selectedWindowID, nextWindowID, matchData,
          matchString, matchInString, matchBuffer, configs, panicked, last,
          keymaps, env, errorParents, funcByName, loop, scanner, timers,
          timerSeq, tick, messages, walk, providedFeatures, loadingFeatures,
          loader>>

(***************************************************************************)
(* Bounds of the model.                                                    *)
(***************************************************************************)
MaxBufObjs == 4      \* buffer objects allocated in one run
MaxWindows == 2      \* windows created in one run
MaxLen == 2          \* characters in one buffer
MaxBody == 2         \* forms in the body of one form
MaxArgs == 3         \* arguments of one call
MaxTemplate == 3     \* characters in one replacement template
MaxLoop == 2         \* the largest end value of a numeric loop
MaxSrc == 3          \* the longest source built from the bytes of SrcChars
MaxTimers == 2       \* timers made in one run
MaxTime == 3         \* the time of the last tick, in seconds
MaxHooks == 1        \* functions added to one hook of one buffer

Nil == 0

Min(a, b) == IF a < b THEN a ELSE b
Max(a, b) == IF a > b THEN a ELSE b

\* Go's s[a:b] on a slice or string, 0-based and half-open.
Slice(s, a, b) == SubSeq(s, a + 1, b)

\* delete(m, k) on a Go map.
MapDelete(m, k) == [x \in (DOMAIN m) \ {k} |-> m[x]]

\* m[k] = v on a Go map.
MapPut(m, k, v) == (k :> v) @@ m

(***************************************************************************)
(* Strings: UTF-8 encoding and decoding of code points below 2048.         *)
(***************************************************************************)
EncodeRune(r) ==
    IF r < 128 THEN <<r>> ELSE <<192 + (r \div 64), 128 + (r % 64)>>

RECURSIVE EncodeString(_)
EncodeString(rs) ==
    IF rs = <<>> THEN <<>> ELSE EncodeRune(Head(rs)) \o EncodeString(Tail(rs))

\* []rune(s): a byte that does not start a well-formed sequence decodes to
\* utf8.RuneError, one rune per such byte.
RECURSIVE DecodeString(_)
DecodeString(bs) ==
    IF bs = <<>> THEN <<>>
    ELSE IF bs[1] < 128 THEN <<bs[1]>> \o DecodeString(Tail(bs))
    ELSE IF /\ bs[1] >= 194 /\ bs[1] < 224 /\ Len(bs) >= 2
            /\ bs[2] >= 128 /\ bs[2] < 192
         THEN <<(bs[1] - 192) * 64 + (bs[2] - 128)>> \o DecodeString(Tail(Tail(bs)))
    ELSE <<65533>> \o DecodeString(Tail(bs))

byteToRuneOffset(s, n) ==
    IF n <= 0 THEN 0
    ELSE Len(DecodeString(Slice(s, 0, Min(n, Len(s)))))

\* strings.Index and strings.LastIndex, on bytes.
MatchesAt(hay, needle, i) ==
    /\ i + Len(needle) <= Len(hay)
    /\ Slice(hay, i, i + Len(needle)) = needle

stringsIndex(hay, needle) ==
    LET hits == {i \in 0..Len(hay) : MatchesAt(hay, needle, i)}
    IN  IF hits = {} THEN -1 ELSE CHOOSE i \in hits : \A j \in hits : i <= j

stringsLastIndex(hay, needle) ==
    LET hits == {i \in 0..Len(hay) : MatchesAt(hay, needle, i)}
    IN  IF hits = {} THEN -1 ELSE CHOOSE i \in hits : \A j \in hits : i >= j

(***************************************************************************)
(* The document model: rt.buffers, rt.windows and the selected window.     *)
(* The helpers work on a record d of the five fields they touch.           *)
(***************************************************************************)
Doc == [heap |-> heap, buffers |-> buffers, windows |-> windows,
        selectedWindowID |-> selectedWindowID, nextWindowID |-> nextWindowID]

SetDoc(d) ==
    /\ heap' = d.heap
    /\ buffers' = d.buffers
    /\ windows' = d.windows
    /\ selectedWindowID' = d.selectedWindowID
    /\ nextWindowID' = d.nextWindowID

\* &elBuffer{name: name, hooks: make(...)} followed by b.object = ...
NewBuffer(name) ==
    [name |-> name, object |-> TRUE, localMap |-> Nil, hooks |-> <<>>,
     text |-> <<>>, point |-> 0]

\* ensureBuffer without the lookup: a buffer is allocated for every call.
ensureBuffer_AlwaysNew(d, name) ==
    LET b == Len(d.heap) + 1
    IN  [d |-> [d EXCEPT !.heap = Append(@, NewBuffer(name)),
                         !.buffers = MapPut(@, name, b)],
         b |-> b]

ensureBuffer(d, name) ==
    IF name \in DOMAIN d.buffers
    THEN [d |-> d, b |-> d.buffers[name]]
    ELSE LET b == Len(d.heap) + 1
         IN  [d |-> [d EXCEPT !.heap = Append(@, NewBuffer(name)),
                              !.buffers = MapPut(@, name, b)],
              b |-> b]

\* newWindowForBuffer building &elWindow{id: id}, the buffer left nil.
newWindowForBuffer_NoBuffer(d, buf) ==
    LET id == d.nextWindowID
    IN  [d |-> [d EXCEPT !.nextWindowID = id + 1,
                         !.windows = MapPut(@, id, [id |-> id, buffer |-> Nil])],
         w |-> id]

newWindowForBuffer(d, buf) ==
    LET id == d.nextWindowID
    IN  [d |-> [d EXCEPT !.nextWindowID = id + 1,
                         !.windows = MapPut(@, id, [id |-> id, buffer |-> buf])],
         w |-> id]

ensureInitialWindowAndBuffer(d) ==
    LET e == ensureBuffer(d, "*scratch*")
        n == newWindowForBuffer(e.d, e.b)
    IN  [n.d EXCEPT !.selectedWindowID = n.w]

\* The outcomes of rt.selectedWindow(): the window it returns and the state it
\* leaves.  Ranging over a Go map visits the windows in an unspecified order,
\* so any window of the table may be the one picked.
selectedWindow(d) ==
    IF d.selectedWindowID \in DOMAIN d.windows
    THEN {[d |-> d, w |-> d.selectedWindowID]}
    ELSE IF DOMAIN d.windows # {}
    THEN {[d |-> [d EXCEPT !.selectedWindowID = w], w |-> w] : w \in DOMAIN d.windows}
    ELSE LET n == ensureInitialWindowAndBuffer(d)
         IN  {[d |-> n, w |-> n.selectedWindowID]}

currentBuffer(d) ==
    {[d |-> s.d, w |-> s.w, b |-> s.d.windows[s.w].buffer] : s \in selectedWindow(d)}

\* rt.selectedWindow().buffer = buf
SetSelectedBuffer(d, buf) ==
    {[s.d EXCEPT !.windows[s.w].buffer = buf] : s \in selectedWindow(d)}

\* rt.selectedWindow().buffer = rt.ensureBuffer(name): the window is resolved
\* before the buffer is looked up.
SetSelectedToEnsured(d, name) ==
    {LET e == ensureBuffer(s.d, name)
     IN  [d |-> [e.d EXCEPT !.windows[s.w].buffer = e.b], b |-> e.b] :
     s \in selectedWindow(d)}

\* The model allocates at most MaxBufObjs buffers and MaxWindows windows.
Fits(d) ==
    /\ Len(d.heap) <= MaxBufObjs
    /\ Cardinality(DOMAIN d.windows) <= MaxWindows

(***************************************************************************)
(* Inputs.  A buffer argument is a name or a buffer object, possibly one   *)
(* that is no longer in the table.                                         *)
(***************************************************************************)
BaseNames == {"*scratch*", "game"}

\* arg.obj is an el-buffer object, or Nil when the argument is the string arg.str.
bufferNameFromArg(arg) == IF arg.obj # Nil THEN heap[arg.obj].name ELSE arg.str

\* An object argument acts through its name alone, so objects are enumerated
\* only for the names that are not given as strings.
BufferArgs ==
    {[obj |-> Nil, str |-> n] : n \in BaseNames}
        \cup {[obj |-> i, str |-> ""] :
                i \in {j \in 1..Len(heap) : heap[j].name \notin BaseNames /\ heap[j].object}}

\* The value a primitive returns: an integer (a position, an object index, 1
\* for t, 0 for nil) or, for replace-match, a string.
Returned(op, ret) == last' = [op |-> op, ret |-> ret, str |-> <<>>, matched |-> FALSE]

ReturnedString(op, str) == last' = [op |-> op, ret |-> 0, str |-> str, matched |-> FALSE]

\* The value returned by a search that ran the matcher, found a match and
\* recorded it.
ReturnedMatch(op, ret) == last' = [op |-> op, ret |-> ret, str |-> <<>>, matched |-> TRUE]

(***************************************************************************)
(* Buffer and window primitives.                                           *)
(***************************************************************************)
switchToBufferImpl(arg) ==
    /\ ~panicked
    /\ LET e == ensureBuffer(Doc, bufferNameFromArg(arg))
       IN  \E d \in SetSelectedBuffer(e.d, e.b) :
              /\ Fits(d)
              /\ SetDoc(d)
              /\ Returned("switch-to-buffer", e.b)
    /\ UNCHANGED <<matchVars, configs, panicked, kmVars, evVars>>

getBufferCreateImpl(name) ==
    /\ ~panicked
    /\ name \in BaseNames
    /\ LET e == ensureBuffer(Doc, name)
       IN  /\ Fits(e.d)
           /\ SetDoc(e.d)
           /\ Returned("get-buffer-create", e.b)
    /\ UNCHANGED <<matchVars, configs, panicked, kmVars, evVars>>

\* fmt.Sprintf("%s<%d>", base, i)
Candidate(base, i) == base \o "<" \o ToString(i) \o ">"

\* for i := 2; ; i++ { ... if free { break } }
RECURSIVE FirstFree(_, _, _)
FirstFree(bufs, base, i) ==
    IF Candidate(base, i) \notin DOMAIN bufs
    THEN Candidate(base, i)
    ELSE FirstFree(bufs, base, i + 1)

\* The search for a free name starting at 1 instead of 2.
GeneratedName_FromOne(bufs, arg) ==
    LET base == IF arg = "" THEN "*buffer*" ELSE arg
    IN  IF base \in DOMAIN bufs THEN FirstFree(bufs, base, 1) ELSE base

GeneratedName(bufs, arg) ==
    LET base == IF arg = "" THEN "*buffer*" ELSE arg
    IN  IF base \in DOMAIN bufs THEN FirstFree(bufs, base, 2) ELSE base

generateNewBufferImpl(arg) ==
    /\ ~panicked
    /\ LET e == ensureBuffer(Doc, GeneratedName(buffers, arg))
       IN  /\ Fits(e.d)
           /\ SetDoc(e.d)
           /\ Returned("generate-new-buffer", e.b)
    /\ UNCHANGED <<matchVars, configs, panicked, kmVars, evVars>>

\* What kill-buffer does to the document model, for every way the selected
\* window can resolve.
KillBuffer(d0, hasArg, arg) ==
    UNION {LET name == IF hasArg THEN bufferNameFromArg(arg) ELSE c.d.heap[c.b].name
               d1 == [c.d EXCEPT !.buffers = MapDelete(@, name)]
           IN  IF DOMAIN d1.buffers = {}
               THEN {ensureInitialWindowAndBuffer(d1)}
               ELSE UNION {IF c1.d.heap[c1.b].name = name
                           THEN {r.d : r \in SetSelectedToEnsured(c1.d, "*scratch*")}
                           ELSE {c1.d} :
                           c1 \in currentBuffer(d1)} :
           c \in currentBuffer(d0)}

killBufferImpl(hasArg, arg) ==
    /\ ~panicked
    /\ \E d \in KillBuffer(Doc, hasArg, arg) :
          /\ Fits(d)
          /\ SetDoc(d)
          /\ Returned("kill-buffer", 1)
    /\ UNCHANGED <<matchVars, configs, panicked, kmVars, evVars>>

BuryBuffer(d0, hasArg, arg) ==
    UNION {LET name == IF hasArg THEN bufferNameFromArg(arg) ELSE c.d.heap[c.b].name
           IN  UNION {IF c1.d.heap[c1.b].name = name
                      THEN {r.d : r \in SetSelectedToEnsured(c1.d, "*scratch*")}
                      ELSE {c1.d} :
                      c1 \in currentBuffer(c.d)} :
           c \in currentBuffer(d0)}

buryBufferImpl(hasArg, arg) ==
    /\ ~panicked
    /\ \E d \in BuryBuffer(Doc, hasArg, arg) :
          /\ Fits(d)
          /\ SetDoc(d)
          /\ Returned("bury-buffer", 1)
    /\ UNCHANGED <<matchVars, configs, panicked, kmVars, evVars>>

\* wv is an el-window object: every window object ever made is still the one
\* registered under its id, since nothing removes a window from rt.windows.
selectWindowImpl(wv) ==
    /\ ~panicked
    /\ wv \in DOMAIN windows
    /\ LET w == windows[wv]
       IN  /\ SetDoc([Doc EXCEPT !.windows = MapPut(@, w.id, w),
                                 !.selectedWindowID = w.id])
           /\ Returned("select-window", w.id)
    /\ UNCHANGED <<matchVars, configs, panicked, kmVars, evVars>>

\* wv = Nil stands for an argument that is not a window object.
setWindowBufferImpl(wv, arg) ==
    /\ ~panicked
    /\ wv \in DOMAIN windows \cup {Nil}
    /\ LET e == ensureBuffer(Doc, bufferNameFromArg(arg))
       IN  IF wv # Nil
           THEN LET w == [windows[wv] EXCEPT !.buffer = e.b]
                    d == [e.d EXCEPT !.windows = MapPut(@, w.id, w)]
                IN  Fits(d) /\ SetDoc(d)
           ELSE \E s \in selectedWindow(e.d) :
                   LET d == [s.d EXCEPT !.windows[s.w].buffer = e.b]
                   IN  Fits(d) /\ SetDoc(d)
    /\ Returned("set-window-buffer", ensureBuffer(Doc, bufferNameFromArg(arg)).b)
    /\ UNCHANGED <<matchVars, configs, panicked, kmVars, evVars>>

currentWindowConfigurationImpl ==
    /\ ~panicked
    /\ LET live == {id \in DOMAIN windows : windows[id].buffer # Nil}
           cfg == [selectedWindowID |-> selectedWindowID,
                   bufferByWindowID |-> [id \in live |-> heap[windows[id].buffer].name]]
       IN  configs' = {cfg}
    /\ Returned("current-window-configuration", 0)
    /\ UNCHANGED <<heap, buffers, windows, selectedWindowID, nextWindowID,
                   matchVars, panicked, kmVars, evVars>>

\* The loop body without the rebinding of a window that is still in the table.
RestoreWindow_NoRebind(d, id, name) ==
    LET e == ensureBuffer(d, name)
    IN  IF id \in DOMAIN e.d.windows
        THEN e.d
        ELSE [e.d EXCEPT !.windows = MapPut(@, id, [id |-> id, buffer |-> e.b]),
                         !.nextWindowID = IF @ <= id THEN id + 1 ELSE @]

\* The loop body of set-window-configuration for one remembered window.
RestoreWindow(d, id, name) ==
    LET e == ensureBuffer(d, name)
        d1 == IF id \in DOMAIN e.d.windows
              THEN e.d
              ELSE [e.d EXCEPT !.windows = MapPut(@, id, [id |-> id, buffer |-> Nil]),
                               !.nextWindowID = IF @ <= id THEN id + 1 ELSE @]
    IN  [d1 EXCEPT !.windows[id].buffer = e.b]

\* The loop over cfg.bufferByWindowID.  The iterations touch disjoint windows
\* and ensureBuffer is idempotent per name, so the order in which the Go map
\* is ranged over only permutes the allocation of new buffer objects; the
\* model visits the ids in increasing order.
RECURSIVE RestoreWindows(_, _, _)
RestoreWindows(d, cfg, ids) ==
    IF ids = {} THEN d
    ELSE LET id == CHOOSE i \in ids : \A j \in ids : i <= j
         IN  RestoreWindows(RestoreWindow(d, id, cfg.bufferByWindowID[id]),
                            cfg, ids \ {id})

\* set-window-configuration without the selection of the remembered window.
SetWindowConfiguration_KeepSelected(d, cfg) ==
    RestoreWindows(d, cfg, DOMAIN cfg.bufferByWindowID)

SetWindowConfiguration(d, cfg) ==
    LET d1 == RestoreWindows(d, cfg, DOMAIN cfg.bufferByWindowID)
    IN  IF cfg.selectedWindowID \in DOMAIN d1.windows
        THEN [d1 EXCEPT !.selectedWindowID = cfg.selectedWindowID]
        ELSE d1

setWindowConfigurationImpl(cfg) ==
    /\ ~panicked
    /\ cfg \in configs
    /\ LET d == SetWindowConfiguration(Doc, cfg)
       IN  Fits(d) /\ SetDoc(d)
    /\ Returned("set-window-configuration", 1)
    /\ UNCHANGED <<matchVars, configs, panicked, kmVars, evVars>>

(***************************************************************************)
(* Regular expressions.  regexp.Compile is modelled for the patterns       *)
(*     item ...      item ::= atom | atom? | (atom) | (atom)?              *)
(*                   atom ::= a literal character | .                      *)
(* and reports an error for anything else.  A compiled pattern is the      *)
(* sequence of its items.                                                  *)
(***************************************************************************)
\* ( ) . ? * + [ \ ] ^ $ { | }
Specials == {40, 41, 46, 63, 42, 43, 91, 92, 93, 94, 36, 123, 124, 125}

RECURSIVE ParseItems(_, _)
ParseItems(pat, i) ==
    IF i > Len(pat) THEN [ok |-> TRUE, items |-> <<>>]
    ELSE LET grp == pat[i] = 40
             a == IF grp THEN i + 1 ELSE i
             atomOk == /\ a <= Len(pat)
                       /\ pat[a] \notin Specials \ {46}
                       /\ grp => (a + 1 <= Len(pat) /\ pat[a + 1] = 41)
             n == IF grp THEN a + 2 ELSE a + 1
             opt == n <= Len(pat) /\ pat[n] = 63
             rest == ParseItems(pat, IF opt THEN n + 1 ELSE n)
         IN  IF ~atomOk \/ ~rest.ok
             THEN [ok |-> FALSE, items |-> <<>>]
             ELSE [ok |-> TRUE,
                   items |-> <<[any |-> pat[a] = 46, ch |-> pat[a],
                                opt |-> opt, grp |-> grp]>> \o rest.items]

regexpCompile(pat) == ParseItems(pat, 1)

NoMatch == [ok |-> FALSE, end |-> 0, caps |-> <<>>]

\* Leftmost-first matching of items k.. at rune offset pos: an optional item
\* prefers to consume.  Offsets are 0-based rune offsets, -1 for a group that
\* took no part in the match.
RECURSIVE MatchHere(_, _, _, _)
MatchHere(items, k, rs, pos) ==
    IF k > Len(items) THEN [ok |-> TRUE, end |-> pos, caps |-> <<>>]
    ELSE LET it == items[k]
             canTake == /\ pos < Len(rs)
                        /\ IF it.any THEN rs[pos + 1] # 10 ELSE rs[pos + 1] = it.ch
             take == IF canTake THEN MatchHere(items, k + 1, rs, pos + 1) ELSE NoMatch
             skip == IF it.opt THEN MatchHere(items, k + 1, rs, pos) ELSE NoMatch
         IN  IF take.ok
             THEN [take EXCEPT !.caps = (IF it.grp THEN <<pos, pos + 1>> ELSE <<>>) \o @]
             ELSE IF skip.ok
             THEN [skip EXCEPT !.caps = (IF it.grp THEN <<-1, -1>> ELSE <<>>) \o @]
             ELSE NoMatch

\* The byte offset of rune offset n in the string that encodes rs.
ByteOffset(rs, n) == IF n < 0 THEN -1 ELSE Len(EncodeString(Slice(rs, 0, n)))

\* (*Regexp).FindStringSubmatchIndex(s): byte offsets of the leftmost match
\* and of its groups, <<>> (nil) when there is no match.
FindStringSubmatchIndex(items, s) ==
    LET rs == DecodeString(s)
        starts == {i \in 0..Len(rs) : MatchHere(items, 1, rs, i).ok}
    IN  IF starts = {} THEN <<>>
        ELSE LET i == CHOOSE x \in starts : \A y \in starts : x <= y
                 m == MatchHere(items, 1, rs, i)
                 offs == <<i, m.end>> \o m.caps
             IN  [j \in 1..Len(offs) |-> ByteOffset(rs, offs[j])]

(***************************************************************************)
(* The match-data record.                                                  *)
(***************************************************************************)
Match == [matchData |-> matchData, matchString |-> matchString,
          matchInString |-> matchInString, matchBuffer |-> matchBuffer]

SetMatch(m) ==
    /\ matchData' = m.matchData
    /\ matchString' = m.matchString
    /\ matchInString' = m.matchInString
    /\ matchBuffer' = m.matchBuffer

clearMatchData ==
    [matchData |-> <<>>, matchString |-> <<>>, matchInString |-> FALSE,
     matchBuffer |-> Nil]

\* The loop of setStringMatchData and setBufferMatchData: one pair per group,
\* shifted by base, a pair with a negative offset becoming (-1, -1).
RECURSIVE ConvertPairs(_, _, _, _)
ConvertPairs(s, base, idx, i) ==
    IF i + 1 > Len(idx) THEN <<>>
    ELSE LET a == idx[i]
             b == idx[i + 1]
         IN  (IF a < 0 \/ b < 0
              THEN <<-1, -1>>
              ELSE <<base + byteToRuneOffset(s, a), base + byteToRuneOffset(s, b)>>)
             \o ConvertPairs(s, base, idx, i + 2)

setStringMatchData(s, runeBase, submatchIdx) ==
    IF Len(submatchIdx) = 0 THEN clearMatchData
    ELSE [matchData |-> ConvertPairs(s, runeBase, submatchIdx, 1),
          matchString |-> s, matchInString |-> TRUE, matchBuffer |-> Nil]

setBufferMatchData(buf, segment, runeBase, submatchIdx) ==
    IF Len(submatchIdx) = 0 THEN clearMatchData
    ELSE [matchData |-> ConvertPairs(segment, runeBase + 1, submatchIdx, 1),
          matchString |-> <<>>, matchInString |-> FALSE, matchBuffer |-> buf]

(***************************************************************************)
(* Text primitives.  They act on the buffer of the selected window.        *)
(***************************************************************************)
Clamp(p, n) == IF p < 0 THEN 0 ELSE IF p > n THEN n ELSE p

SetBuf(d, b, text, point) ==
    [d EXCEPT !.heap[b].text = text, !.heap[b].point = point]

\* A slice expression out of range: the Go runtime panics and, nothing
\* recovering it, the process ends.
Panic(op) ==
    /\ panicked' = TRUE
    /\ Returned(op, 0)
    /\ UNCHANGED <<docVars, matchVars, kmVars, evVars>>

insertImpl(rs) ==
    /\ ~panicked
    /\ \E c \in currentBuffer(Doc) :
          LET buf == c.d.heap[c.b]
              p == Clamp(buf.point, Len(buf.text))
              ins == DecodeString(EncodeString(rs))
              text == Slice(buf.text, 0, p) \o ins \o Slice(buf.text, p, Len(buf.text))
          IN  IF c.b = Nil THEN SetDoc(c.d)
              ELSE IF Len(ins) = 0 THEN SetDoc(SetBuf(c.d, c.b, buf.text, p))
              ELSE /\ Len(text) <= MaxLen
                   /\ SetDoc(SetBuf(c.d, c.b, text, p + Len(ins)))
    /\ Returned("insert", 0)
    /\ UNCHANGED <<matchVars, configs, panicked, kmVars, evVars>>

\* append(src.text[start:end], right...) writes into the array of src.text when
\* its capacity allows: certainly when the written elements lie within
\* len(src.text), and depending on the capacity (inPlace) when they reach
\* beyond it.
AppendInto(srcText, end, right, inPlace) ==
    IF Len(right) = 0 \/ (end + Len(right) > Len(srcText) /\ ~inPlace)
    THEN srcText
    ELSE [i \in 1..Len(srcText) |->
            IF i > end /\ i <= end + Len(right) THEN right[i - end] ELSE srcText[i]]

insertBufferSubstringImpl(arg, hasStart, startArg, hasEnd, endArg) ==
    /\ ~panicked
    /\ LET srcName == bufferNameFromArg(arg)
       IN  IF srcName \notin DOMAIN buffers
           THEN /\ Returned("insert-buffer-substring", 0)
                /\ UNCHANGED <<docVars, matchVars, panicked, kmVars, evVars>>
           ELSE \E c \in currentBuffer(Doc), inPlace \in BOOLEAN :
                   LET sb == buffers[srcName]
                       src == c.d.heap[sb]
                       start == Max(IF hasStart THEN startArg - 1 ELSE 0, 0)
                       end0 == IF hasEnd THEN endArg - 1 ELSE Len(src.text)
                       end == Min(Max(end0, start), Len(src.text))
                       dst == c.d.heap[c.b]
                       right == Slice(dst.text, dst.point, Len(dst.text))
                       mid == Slice(src.text, start, end)
                       srcText == AppendInto(src.text, end, right, inPlace)
                       left == Slice(IF sb = c.b THEN srcText ELSE dst.text, 0, dst.point)
                       text == left \o mid \o right
                       d1 == [c.d EXCEPT !.heap[sb].text = srcText]
                   IN  IF start > end \/ dst.point > Len(dst.text)
                       THEN Panic("insert-buffer-substring")
                       ELSE /\ Len(text) <= MaxLen
                            /\ SetDoc(SetBuf(d1, c.b, text, dst.point + (end - start)))
                            /\ Returned("insert-buffer-substring", 0)
                            /\ UNCHANGED <<matchVars, configs, panicked, kmVars, evVars>>

eraseBufferImpl ==
    /\ ~panicked
    /\ \E c \in currentBuffer(Doc) : SetDoc(SetBuf(c.d, c.b, <<>>, 0))
    /\ Returned("erase-buffer", 0)
    /\ UNCHANGED <<matchVars, configs, panicked, kmVars, evVars>>

gotoCharImpl(pos) ==
    /\ ~panicked
    /\ \E c \in currentBuffer(Doc) :
          LET buf == c.d.heap[c.b]
              p == Min(Max(pos - 1, 0), Len(buf.text))
          IN  /\ SetDoc(SetBuf(c.d, c.b, buf.text, p))
              /\ Returned("goto-char", p + 1)
    /\ UNCHANGED <<matchVars, configs, panicked, kmVars, evVars>>

forwardCharImpl(n) ==
    /\ ~panicked
    /\ \E c \in currentBuffer(Doc) :
          LET buf == c.d.heap[c.b]
              p == Clamp(buf.point + n, Len(buf.text))
          IN  /\ SetDoc(SetBuf(c.d, c.b, buf.text, p))
              /\ Returned("forward-char", p + 1)
    /\ UNCHANGED <<matchVars, configs, panicked, kmVars, evVars>>

backwardCharImpl(n) ==
    /\ ~panicked
    /\ \E c \in currentBuffer(Doc) :
          LET buf == c.d.heap[c.b]
              p == Clamp(buf.point - n, Len(buf.text))
          IN  /\ SetDoc(SetBuf(c.d, c.b, buf.text, p))
              /\ Returned("backward-char", p + 1)
    /\ UNCHANGED <<matchVars, configs, panicked, kmVars, evVars>>

\* text[:start] followed by text[end:]
Cut(text, start, end) == Slice(text, 0, start) \o Slice(text, end, Len(text))

deleteRegionImpl(startArg, endArg) ==
    /\ ~panicked
    /\ \E c \in currentBuffer(Doc) :
          LET buf == c.d.heap[c.b]
              n == Len(buf.text)
              lo == Min(startArg - 1, endArg - 1)
              hi == Max(startArg - 1, endArg - 1)
              start == Min(Max(lo, 0), n)
              end == Min(Max(hi, 0), n)
              text == IF start < end THEN Cut(buf.text, start, end) ELSE buf.text
              p == IF start < end
                   THEN IF buf.point > end THEN buf.point - (end - start)
                        ELSE IF buf.point > start THEN start ELSE buf.point
                   ELSE buf.point
          IN  SetDoc(SetBuf(c.d, c.b, text, Clamp(p, Len(text))))
    /\ Returned("delete-region", 0)
    /\ UNCHANGED <<matchVars, configs, panicked, kmVars, evVars>>

deleteCharImpl(n) ==
    /\ ~panicked
    /\ \E c \in currentBuffer(Doc) :
          LET buf == c.d.heap[c.b]
              len == Len(buf.text)
              fstart == Max(buf.point, 0)
              fend == Min(buf.point + n, len)
              bstart == Max(buf.point + n, 0)
              bend == Min(buf.point, len)
          IN  IF n = 0 THEN SetDoc(c.d)
              ELSE IF n > 0
              THEN SetDoc(SetBuf(c.d, c.b,
                                 IF fstart < fend THEN Cut(buf.text, fstart, fend)
                                 ELSE buf.text,
                                 buf.point))
              ELSE IF bstart < bend
              THEN SetDoc(SetBuf(c.d, c.b, Cut(buf.text, bstart, bend), bstart))
              ELSE SetDoc(c.d)
    /\ Returned("delete-char", 0)
    /\ UNCHANGED <<matchVars, configs, panicked, kmVars, evVars>>

(***************************************************************************)
(* Searches.                                                               *)
(***************************************************************************)
\* min(max(arg-1, 0), len(buf.text)) when a limit is given.
ForwardLimit(hasLimit, limitArg, len) ==
    IF hasLimit THEN Min(Max(limitArg - 1, 0), len) ELSE len

searchForwardImpl(needle, hasLimit, limitArg) ==
    /\ ~panicked
    /\ \E c \in currentBuffer(Doc) :
          LET buf == c.d.heap[c.b]
              limit == ForwardLimit(hasLimit, limitArg, Len(buf.text))
              p == Clamp(buf.point, Len(buf.text))
              seg == EncodeString(Slice(buf.text, p, limit))
              idx == stringsIndex(seg, EncodeString(needle))
              start == p + idx
              end == start + Len(needle)
          IN  IF needle = <<>>
              THEN /\ SetDoc(c.d)
                   /\ UNCHANGED <<matchVars, panicked>>
                   /\ Returned("search-forward", buf.point + 1)
              ELSE IF p > limit
              THEN Panic("search-forward")
              ELSE IF idx < 0
              THEN /\ SetDoc(SetBuf(c.d, c.b, buf.text, p))
                   /\ SetMatch(clearMatchData)
                   /\ UNCHANGED panicked
                   /\ Returned("search-forward", 0)
              ELSE /\ SetDoc(SetBuf(c.d, c.b, buf.text, p + idx + Len(needle)))
                   /\ SetMatch([matchData |-> <<start + 1, end + 1>>,
                                matchString |-> <<>>, matchInString |-> FALSE,
                                matchBuffer |-> c.b])
                   /\ UNCHANGED panicked
                   /\ ReturnedMatch("search-forward", p + idx + Len(needle) + 1)
    /\ UNCHANGED <<configs, kmVars, evVars>>

\* string(buf.text) is sliced with the rune offsets limit and point.
searchBackwardImpl(needle, hasLimit, limitArg) ==
    /\ ~panicked
    /\ \E c \in currentBuffer(Doc) :
          LET buf == c.d.heap[c.b]
              limit == IF hasLimit THEN Max(limitArg - 1, 0) ELSE 0
              segment == EncodeString(buf.text)
              p == Min(buf.point, Len(buf.text))
              seg == Slice(segment, limit, p)
              idx == stringsLastIndex(seg, EncodeString(needle))
          IN  IF needle = <<>>
              THEN /\ SetDoc(c.d)
                   /\ UNCHANGED <<matchVars, panicked>>
                   /\ Returned("search-backward", buf.point + 1)
              ELSE IF limit > p \/ p < 0
              THEN Panic("search-backward")
              ELSE IF idx < 0
              THEN /\ SetDoc(SetBuf(c.d, c.b, buf.text, p))
                   /\ SetMatch(clearMatchData)
                   /\ UNCHANGED panicked
                   /\ Returned("search-backward", 0)
              ELSE /\ SetDoc(SetBuf(c.d, c.b, buf.text, limit + idx))
                   /\ SetMatch([matchData |-> <<limit + idx + 1,
                                                limit + idx + Len(needle) + 1>>,
                                matchString |-> <<>>, matchInString |-> FALSE,
                                matchBuffer |-> c.b])
                   /\ UNCHANGED panicked
                   /\ ReturnedMatch("search-backward", limit + idx + 1)
    /\ UNCHANGED <<configs, kmVars, evVars>>

\* Where re-search-forward leaves point after a match at byte offsets loc.
PointAfterRegexp(p, loc) == p + loc[2]

searchForwardRegexpImpl(pat, hasLimit, limitArg) ==
    /\ ~panicked
    /\ \E c \in currentBuffer(Doc) :
          LET buf == c.d.heap[c.b]
              limit == ForwardLimit(hasLimit, limitArg, Len(buf.text))
              p == Clamp(buf.point, Len(buf.text))
              re == regexpCompile(pat)
              seg == EncodeString(Slice(buf.text, p, limit))
              loc == FindStringSubmatchIndex(re.items, seg)
          IN  IF ~re.ok
              THEN /\ SetDoc(SetBuf(c.d, c.b, buf.text, p))
                   /\ SetMatch(clearMatchData)
                   /\ UNCHANGED panicked
                   /\ Returned("re-search-forward", 0)
              ELSE IF p > limit
              THEN Panic("re-search-forward")
              ELSE IF loc = <<>>
              THEN /\ SetDoc(SetBuf(c.d, c.b, buf.text, p))
                   /\ SetMatch(clearMatchData)
                   /\ UNCHANGED panicked
                   /\ Returned("re-search-forward", 0)
              ELSE /\ SetDoc(SetBuf(c.d, c.b, buf.text, PointAfterRegexp(p, loc)))
                   /\ SetMatch(setBufferMatchData(c.b, seg, p, loc))
                   /\ UNCHANGED panicked
                   /\ ReturnedMatch("re-search-forward", PointAfterRegexp(p, loc) + 1)
    /\ UNCHANGED <<configs, kmVars, evVars>>

lookingAtImpl(pat) ==
    /\ ~panicked
    /\ \E c \in currentBuffer(Doc) :
          LET buf == c.d.heap[c.b]
              re == regexpCompile(pat)
              p == Clamp(buf.point, Len(buf.text))
              segment == EncodeString(Slice(buf.text, p, Len(buf.text)))
              m == FindStringSubmatchIndex(re.items, segment)
          IN  IF ~re.ok
              THEN /\ SetDoc(c.d)
                   /\ SetMatch(clearMatchData)
                   /\ Returned("looking-at", 0)
              ELSE IF m # <<>> /\ m[1] = 0
              THEN /\ SetDoc(SetBuf(c.d, c.b, buf.text, p))
                   /\ SetMatch(setBufferMatchData(c.b, segment, p, m))
                   /\ ReturnedMatch("looking-at", 1)
              ELSE /\ SetDoc(SetBuf(c.d, c.b, buf.text, p))
                   /\ SetMatch(clearMatchData)
                   /\ Returned("looking-at", 0)
    /\ UNCHANGED <<configs, panicked, kmVars, evVars>>

stringMatchPImpl(pat, str, hasStart, startArg) ==
    /\ ~panicked
    /\ LET rs == DecodeString(EncodeString(str))
           start == Min(Max(IF hasStart THEN startArg ELSE 0, 0), Len(rs))
           re == regexpCompile(pat)
           segment == EncodeString(Slice(rs, start, Len(rs)))
           loc == FindStringSubmatchIndex(re.items, segment)
           m == setStringMatchData(segment, start, loc)
       IN  IF ~re.ok \/ loc = <<>>
           THEN SetMatch(clearMatchData) /\ Returned("string-match", 0)
           ELSE SetMatch(m) /\ ReturnedMatch("string-match", m.matchData[1])
    /\ UNCHANGED <<docVars, panicked, kmVars, evVars>>

\* d is the list argument: a sequence of integers, other elements becoming -1;
\* isList is FALSE for an argument that is neither nil nor a list.
setMatchDataImpl(isList, d) ==
    /\ ~panicked
    /\ IF ~isList
       THEN UNCHANGED <<docVars, matchVars>>
       ELSE IF d = <<>>
       THEN SetMatch(clearMatchData) /\ UNCHANGED docVars
       ELSE \E c \in currentBuffer(Doc) :
               /\ SetDoc(c.d)
               /\ UNCHANGED configs
               /\ SetMatch([matchData |-> d, matchString |-> <<>>,
                            matchInString |-> FALSE, matchBuffer |-> c.b])
    /\ Returned("set-match-data", 0)
    /\ UNCHANGED <<panicked, kmVars, evVars>>

(***************************************************************************)
(* replace-match.                                                          *)
(***************************************************************************)
\* expandReplacementTemplate walks the bytes of the template; i is 1-based.
RECURSIVE ExpandFrom(_, _, _)
ExpandFrom(template, matched, i) ==
    IF i > Len(template) THEN <<>>
    ELSE IF template[i] # 92 \/ i + 1 > Len(template)
    THEN <<template[i]>> \o ExpandFrom(template, matched, i + 1)
    ELSE LET ch == template[i + 1]
             out == IF ch = 38
                    THEN IF Len(matched) > 0 THEN matched[1] ELSE <<>>
                    ELSE IF ch = 92 THEN <<92>>
                    ELSE IF ch >= 48 /\ ch <= 57
                    THEN IF ch - 48 < Len(matched) THEN matched[ch - 48 + 1] ELSE <<>>
                    ELSE <<ch>>
         IN  out \o ExpandFrom(template, matched, i + 2)

expandReplacementTemplate(template, matched) == ExpandFrom(template, matched, 1)

\* The strings of groups 1.. taken from rs; off is 1 for buffer match data.
RECURSIVE GroupStrings(_, _, _, _)
GroupStrings(md, rs, off, i) ==
    IF i + 1 > Len(md) THEN <<>>
    ELSE LET a == md[i] - off
             b == md[i + 1] - off
             bad == \/ md[i] < 0 \/ md[i + 1] < 0 \/ a < 0 \/ b < 0
                    \/ a > Len(rs) \/ b > Len(rs) \/ a > b
         IN  <<IF bad THEN <<>> ELSE EncodeString(Slice(rs, a, b))>>
             \o GroupStrings(md, rs, off, i + 2)

\* start and end after the clamping and the swap of replace-match.
SpanLo(start, end, len) == Min(Max(start, 0), Min(end, len))
SpanHi(start, end, len) == Max(Max(start, 0), Min(end, len))

Replacement_AlwaysExpand(repl, literal, matched) ==
    expandReplacementTemplate(EncodeString(repl), matched)

Replacement(repl, literal, matched) ==
    IF literal THEN EncodeString(repl)
    ELSE expandReplacementTemplate(EncodeString(repl), matched)

replaceMatchImpl(repl, literal, hasString, str, subexp) ==
    /\ ~panicked
    /\ LET pairIdx == subexp * 2
           unusable == \/ Len(matchData) < 2
                       \/ pairIdx + 1 >= Len(matchData)
                       \/ matchData[pairIdx + 1] < 0
                       \/ matchData[pairIdx + 2] < 0
           mstart == matchData[pairIdx + 1]
           mend == matchData[pairIdx + 2]
       IN  IF unusable
           THEN /\ ReturnedString("replace-match", EncodeString(repl))
                /\ UNCHANGED <<docVars, matchVars, panicked>>
           ELSE IF hasString
           THEN LET rs == DecodeString(EncodeString(str))
                    start == SpanLo(mstart, mend, Len(rs))
                    end == SpanHi(mstart, mend, Len(rs))
                    matched == <<EncodeString(Slice(rs, start, end))>>
                                  \o GroupStrings(matchData, rs, 0, 3)
                    out == EncodeString(Slice(rs, 0, start))
                              \o Replacement(repl, literal, matched)
                              \o EncodeString(Slice(rs, end, Len(rs)))
                IN  IF end > Len(rs)
                    THEN Panic("replace-match")
                    ELSE /\ ReturnedString("replace-match", out)
                         /\ UNCHANGED <<docVars, matchVars, panicked>>
           ELSE \E c \in currentBuffer(Doc) :
                   LET b == IF matchBuffer # Nil THEN matchBuffer ELSE c.b
                       buf == c.d.heap[b]
                       start == SpanLo(mstart - 1, mend - 1, Len(buf.text))
                       end == SpanHi(mstart - 1, mend - 1, Len(buf.text))
                       matched == <<EncodeString(Slice(buf.text, start, end))>>
                                     \o GroupStrings(matchData, buf.text, 1, 3)
                       replacement == Replacement(repl, literal, matched)
                       replRunes == DecodeString(replacement)
                       text == Slice(buf.text, 0, start) \o replRunes
                                  \o Slice(buf.text, end, Len(buf.text))
                   IN  IF b = Nil
                       THEN /\ ReturnedString("replace-match", EncodeString(repl))
                            /\ UNCHANGED <<docVars, matchVars, panicked>>
                       ELSE IF end > Len(buf.text)
                       THEN Panic("replace-match")
                       ELSE /\ Len(text) <= MaxLen
                            /\ SetDoc(SetBuf(c.d, b, text, start + Len(replRunes)))
                            /\ SetMatch(clearMatchData)
                            /\ ReturnedString("replace-match", replacement)
                            /\ UNCHANGED <<configs, panicked>>
    /\ UNCHANGED <<kmVars, evVars>>

(***************************************************************************)
(* Keys typed into a text buffer that has no local keymap (handleKey with  *)
(* rt.gridWidth = 0): backspace, left, right and printable characters.     *)
(***************************************************************************)
keyLeft == 252
keyRight == 254

handleKey(key) ==
    /\ ~panicked
    /\ \E c \in currentBuffer(Doc) :
          LET buf == c.d.heap[c.b]
              p == Clamp(buf.point, Len(buf.text))
              ins == DecodeString(EncodeString(<<key>>))
              text == Slice(buf.text, 0, p) \o ins \o Slice(buf.text, p, Len(buf.text))
          IN  IF key = 127 \/ key = 8
              THEN IF buf.point > 0 /\ Len(buf.text) > 0
                   THEN IF buf.point > Len(buf.text)
                        THEN Panic("key")
                        ELSE /\ SetDoc(SetBuf(c.d, c.b,
                                              Cut(buf.text, buf.point - 1, buf.point),
                                              buf.point - 1))
                             /\ UNCHANGED <<matchVars, configs, panicked>>
                             /\ Returned("key", 0)
                   ELSE /\ SetDoc(c.d)
                        /\ UNCHANGED <<matchVars, configs, panicked>>
                        /\ Returned("key", 0)
              ELSE /\ UNCHANGED <<matchVars, configs, panicked>>
                   /\ Returned("key", 0)
                   /\ IF key = keyLeft
                      THEN SetDoc(SetBuf(c.d, c.b, buf.text,
                                         IF buf.point > 0 THEN buf.point - 1
                                         ELSE buf.point))
                      ELSE IF key = keyRight
                      THEN SetDoc(SetBuf(c.d, c.b, buf.text,
                                         IF buf.point < Len(buf.text) THEN buf.point + 1
                                         ELSE buf.point))
                      ELSE IF key >= 32 /\ key <= 126
                      THEN Len(text) <= MaxLen /\ SetDoc(SetBuf(c.d, c.b, text, p + Len(ins)))
                      ELSE SetDoc(c.d)
    /\ UNCHANGED <<kmVars, evVars>>

(***************************************************************************)
(* Keymaps.  A key is a string, kept as its code points; a bound value is  *)
(* a symbol name, "nil" for the empty list.  keymaps maps a variable to    *)
(* the keymap object it is bound to; fullMap is <<>> for a keymap without  *)
(* a dense table, element i + 1 of it is entry i of the el-vector.         *)
(***************************************************************************)
FullMapSize == 256

newKeymap == [bindings |-> <<>>, fullMap |-> <<>>]

\* spec.int is an integer key spec, spec.str a string one (int = -1).
keySpecString(spec) ==
    IF spec.int < 0 THEN spec.str
    ELSE IF spec.int >= 32 /\ spec.int <= 126 THEN <<spec.int>>
    ELSE IF spec.int = 9 THEN <<84, 65, 66>>
    ELSE IF spec.int = 10 \/ spec.int = 13 THEN <<82, 69, 84>>
    ELSE IF spec.int = 27 THEN <<69, 83, 67>>
    ELSE <<>>

\* The loop of defvar-keymap over the key/value pairs that follow the options.
RECURSIVE InitialBindings(_, _)
InitialBindings(bindings, pairs) ==
    IF pairs = <<>> THEN bindings
    ELSE LET key == keySpecString(Head(pairs).key)
         IN  InitialBindings(IF key = <<>> THEN bindings
                             ELSE MapPut(bindings, key, Head(pairs).def),
                             Tail(pairs))

\* The dense table defvar-keymap builds when :full is given.
InitialFullMap(bindings) == [i \in 1..FullMapSize |-> "nil"]

defvarKeymapImpl(name, full, pairs) ==
    /\ ~panicked
    /\ LET bindings == InitialBindings(<<>>, pairs)
           km == [bindings |-> bindings,
                  fullMap |-> IF full THEN InitialFullMap(bindings) ELSE <<>>]
       IN  keymaps' = MapPut(keymaps, name, km)
    /\ Returned("defvar-keymap", 0)
    /\ UNCHANGED <<docVars, matchVars, panicked, evVars>>

\* writeElt on an el-vector.
writeElt(items, idx, value) ==
    IF idx < 0 \/ idx >= Len(items) THEN items ELSE [items EXCEPT ![idx + 1] = value]

\* The mirroring of a binding into the dense table: len(key) and key[0] are
\* the byte length and the first byte of the key string.
MirrorFullMap(km, key, def) ==
    LET bytes == EncodeString(key)
    IN  IF km.fullMap # <<>> /\ Len(bytes) = 1
        THEN writeElt(km.fullMap, bytes[1], def)
        ELSE km.fullMap

defineKeyImpl(m, k, def) ==
    /\ ~panicked
    /\ LET km == IF m \in DOMAIN keymaps THEN keymaps[m] ELSE newKeymap
           key == keySpecString(k)
       IN  IF key = <<>>
           THEN keymaps' = MapPut(keymaps, m, km)
           ELSE keymaps' = MapPut(keymaps, m,
                                  [bindings |-> MapPut(km.bindings, key, def),
                                   fullMap |-> MirrorFullMap(km, key, def)])
    /\ Returned("define-key", 0)
    /\ UNCHANGED <<docVars, matchVars, panicked, evVars>>

keymapSetImpl(m, k, def) == defineKeyImpl(m, k, def)

\* No walk up the parents is under way.
NoWalk ==
    [status |-> "idle", spec |-> "", errCond |-> "", c |-> "", seen |-> {},
     visited |-> <<>>, result |-> FALSE]

\* Nothing is being required or loaded.
NoLoad == [stack |-> <<>>, status |-> "idle", ret |-> "none", shim |-> "unset",
           loads |-> <<>>]

\* The features provided at construction.
BuiltinFeatures ==
    {"cl-lib", "gamegrid", "seq", "subr-x", "outline", "ps-print",
     "ps-print-loaddefs", "icons", "wid-edit", "easymenu"}

\* No tick is under way; the clock starts after the zero time.
NoTick ==
    [running |-> FALSE, now |-> 1, pending |-> {}, failed |-> {},
     visit |-> [id |-> 0, invoked |-> FALSE, failed |-> FALSE, applied |-> 0,
                     cancelled |-> FALSE]]

\* No source is being preprocessed.
NoScan ==
    [status |-> "idle", src |-> <<>>, i |-> 0, out |-> <<>>, vectorDepth |-> 0,
     inString |-> FALSE, inComment |-> FALSE, escaped |-> FALSE, rule |-> "",
     err |-> "", from |-> 0, wrote |-> <<>>, opened |-> 0, closed |-> 0]

\* The clauses of a cl-loop before any token is read.
NoClauses ==
    [mode |-> "do", bodyStart |-> -1, whileExpr |-> <<>>, forAssigns |-> <<>>,
     repeatExpr |-> <<>>, numericVar |-> "", numericStart |-> <<>>,
     numericEnd |-> <<>>, numericStep |-> <<>>, numericCmp |-> "none",
     seqVar |-> "", seqExpr |-> <<>>, seqAcross |-> FALSE]

\* No cl-loop is under way.
NoLoop ==
    [active |-> FALSE, toks |-> <<>>, clauses |-> NoClauses, hasSeq |-> FALSE,
     seqItems |-> <<>>, nEnd |-> 0, nStep |-> 0, nVal |-> 0, repeatCount |-> -1,
     iter |-> 0, local |-> <<>>, result |-> [list |-> <<>>], sum |-> 0,
     collected |-> <<>>]

(***************************************************************************)
(* The state after main has built the runtime: ensureInitialWindowAndBuffer *)
(* applied to empty tables with nextWindowID = 1.                          *)
(***************************************************************************)
Init ==
    /\ LET d == ensureInitialWindowAndBuffer(
                    [heap |-> <<>>, buffers |-> <<>>, windows |-> <<>>,
                     selectedWindowID |-> 0, nextWindowID |-> 1])
       IN  /\ heap = d.heap
           /\ buffers = d.buffers
           /\ windows = d.windows
           /\ selectedWindowID = d.selectedWindowID
           /\ nextWindowID = d.nextWindowID
    /\ matchData = <<>>
    /\ matchString = <<>>
    /\ matchInString = FALSE
    /\ matchBuffer = Nil
    /\ configs = {}
    /\ panicked = FALSE
    /\ last = [op |-> "init", ret |-> 0, str |-> <<>>, matched |-> FALSE]
    /\ keymaps = <<>>
    /\ env = <<>>
    /\ errorParents = [c \in {"error", "quit"} |-> IF c = "quit" THEN "error" ELSE ""]
    /\ funcByName = <<>>
    /\ loop = NoLoop
    /\ scanner = NoScan
    /\ timers = <<>>
    /\ timerSeq = 0
    /\ tick = NoTick
    /\ messages = <<>>
    /\ walk = NoWalk
    /\ providedFeatures = BuiltinFeatures
    /\ loadingFeatures = {}
    /\ loader = NoLoad

(***************************************************************************)
(* Inputs of the specifications.                                           *)
(***************************************************************************)
NoArg == -1     \* an optional integer argument that is not given

Strings == {<<97>>, <<233>>}                                \* "a", "e-acute"
Needles == Strings \cup {<<>>}
Patterns == {<<97>>, <<46>>, <<40, 233, 41, 63, 97>>, <<40>>}  \* a  .  (e')?a  (
Templates == {<<>>, <<98>>, <<92, 38, 92, 49>>}             \* (empty)  b  \&\1
Positions == {1, 2, MaxLen + 2}
OptPositions == Positions \cup {NoArg}
Counts == {-1, 1, 2}
MatchLists == {<<>>, <<1, 2>>, <<3, 1>>}
Keys == {127, keyLeft, keyRight, 97}

WindowArgs == DOMAIN windows

(***************************************************************************)
(* Buffers and windows.                                                    *)
(***************************************************************************)
NextDoc ==
    \/ \E arg \in BufferArgs : switchToBufferImpl(arg)
    \/ \E name \in BaseNames : getBufferCreateImpl(name)
    \/ \E hasArg \in BOOLEAN, arg \in BufferArgs : killBufferImpl(hasArg, arg)
    \/ \E hasArg \in BOOLEAN, arg \in BufferArgs : buryBufferImpl(hasArg, arg)
    \/ \E wv \in WindowArgs : selectWindowImpl(wv)
    \/ \E wv \in WindowArgs \cup {Nil}, arg \in BufferArgs : setWindowBufferImpl(wv, arg)
    \/ currentWindowConfigurationImpl
    \/ \E cfg \in configs : setWindowConfigurationImpl(cfg)

SpecDoc == Init /\ [][NextDoc]_vars

(***************************************************************************)
(* Buffer names: creation by name, generated names and kill-buffer.        *)
(***************************************************************************)
NextNames ==
    \/ \E name \in BaseNames : getBufferCreateImpl(name)
    \/ \E base \in {"game"} : generateNewBufferImpl(base)
    \/ \E hasArg \in BOOLEAN, arg \in BufferArgs : killBufferImpl(hasArg, arg)

SpecNames == Init /\ [][NextNames]_vars

(***************************************************************************)
(* Editing in several buffers.                                             *)
(***************************************************************************)
NextEdit ==
    \/ \E name \in BaseNames : getBufferCreateImpl(name)
    \/ \E arg \in BufferArgs : switchToBufferImpl(arg)
    \/ \E rs \in Strings : insertImpl(rs)
    \/ \E pos \in Positions : gotoCharImpl(pos)
    \/ eraseBufferImpl

SpecEdit == Init /\ [][NextEdit]_vars

(***************************************************************************)
(* Text, searches and match data in the buffer of the initial window.      *)
(***************************************************************************)
NextText ==
    \/ \E rs \in Strings : insertImpl(rs)
    \/ \E arg \in BufferArgs, startArg \in OptPositions, endArg \in OptPositions :
          insertBufferSubstringImpl(arg, startArg # NoArg, startArg, endArg # NoArg, endArg)
    \/ eraseBufferImpl
    \/ \E pos \in Positions \cup {0} : gotoCharImpl(pos)
    \/ \E n \in Counts : forwardCharImpl(n)
    \/ \E n \in Counts : backwardCharImpl(n)
    \/ \E startArg \in Positions, endArg \in Positions : deleteRegionImpl(startArg, endArg)
    \/ \E n \in Counts : deleteCharImpl(n)
    \/ \E needle \in Needles, limitArg \in OptPositions :
          searchForwardImpl(needle, limitArg # NoArg, limitArg)
    \/ \E needle \in Needles, limitArg \in OptPositions :
          searchBackwardImpl(needle, limitArg # NoArg, limitArg)
    \/ \E pat \in Patterns, limitArg \in OptPositions :
          searchForwardRegexpImpl(pat, limitArg # NoArg, limitArg)
    \/ \E pat \in Patterns : lookingAtImpl(pat)
    \/ \E pat \in Patterns, str \in Strings, startArg \in {NoArg, 1} :
          stringMatchPImpl(pat, str, startArg # NoArg, startArg)
    \/ \E isList \in BOOLEAN, d \in MatchLists : setMatchDataImpl(isList, d)
    \/ \E repl \in Templates, literal \in BOOLEAN, hasString \in BOOLEAN, subexp \in {0, 1} :
          replaceMatchImpl(repl, literal, hasString, <<97, 233>>, subexp)
    \/ \E key \in Keys : handleKey(key)

SpecText == Init /\ [][NextText]_vars

(***************************************************************************)
(* Keymaps.                                                                *)
(***************************************************************************)
KeymapNames == {"m"}
KeySpecs == {[int |-> -1, str |-> <<97>>], [int |-> -1, str |-> <<233>>],
             [int |-> 98, str |-> <<>>], [int |-> 13, str |-> <<>>]}
Defs == {"cmd", "other", "nil"}
InitialPairs == {<<>>} \cup {<<[key |-> k, def |-> "cmd"]>> : k \in KeySpecs}

NextKeymap ==
    \/ \E name \in KeymapNames, full \in BOOLEAN, pairs \in InitialPairs :
          defvarKeymapImpl(name, full, pairs)
    \/ \E m \in KeymapNames, k \in KeySpecs, def \in Defs : defineKeyImpl(m, k, def)
    \/ \E m \in KeymapNames, k \in KeySpecs, def \in Defs : keymapSetImpl(m, k, def)

SpecKeymap == Init /\ [][NextKeymap]_vars

(***************************************************************************)
(* Evaluation of forms.  A form is a record whose field op names its       *)
(* operator; golisp.Eval applies the handler registered for the operator   *)
(* (installElispCompat) and hands back the value or the error the handler  *)
(* returned.  The handlers act on the runtime through rtGlobal, so an      *)
(* evaluation carries the document, the chain of frames and, for the       *)
(* properties, the list of the forms evaluated so far.  Resolving the      *)
(* selected window may have several outcomes, so evaluating a form yields  *)
(* a set of outcomes.                                                      *)
(***************************************************************************)
\* Lisp values: integers, symbols, strings and lists.
IntegerWithValue(n) == [int |-> n]
Intern(s) == [sym |-> s]
StringWithValue(s) == [str |-> s]
List(xs) == [list |-> xs]
EmptyCons == List(<<>>)

SymbolP(v) == "sym" \in DOMAIN v
StringP(v) == "str" \in DOMAIN v
ListP(v) == "list" \in DOMAIN v

featureName(v) ==
    IF v = EmptyCons THEN ""
    ELSE IF SymbolP(v) THEN v.sym
    ELSE IF StringP(v) THEN v.str
    ELSE IF ListP(v) THEN "(...)"
    ELSE ToString(v.int)

\* Go errors: a throwSignal, an elSignal, or an error built by fmt.Errorf or
\* errors.New, which has a message only.
NoError == [kind |-> "none", name |-> "", data |-> EmptyCons]
throwSignal(tag, value) == [kind |-> "throw", name |-> tag, data |-> value]
elSignal(condition, data) == [kind |-> "signal", name |-> condition, data |-> data]
fmtErrorf(msg) == [kind |-> "error", name |-> msg, data |-> EmptyCons]

\* (throwSignal).Error() and (elSignal).Error()
ErrorText(e) ==
    IF e.kind = "throw" THEN <<"throw: ", e.name>>
    ELSE IF e.kind = "signal" THEN (IF e.name = "" THEN <<"signal">> ELSE <<"signal: ", e.name>>)
    ELSE <<e.name>>

\* What a handler returns: (value, nil) or (nil, err), and the state it leaves.
Value(st, v) == [ok |-> TRUE, val |-> v, err |-> NoError, st |-> st]
Failure(st, e) == [ok |-> FALSE, val |-> EmptyCons, err |-> e, st |-> st]

\* The forms.
Const(v) == [op |-> "const", v |-> v]
Var(name) == [op |-> "var", name |-> name]
Throw(tag, value) == [op |-> "throw", tag |-> tag, value |-> value]
Signal(cond, data) == [op |-> "signal", cond |-> cond, data |-> data]
Catch(tagExpr, body) == [op |-> "catch", tag |-> tagExpr, body |-> body]
Clause(spec, body) == [spec |-> spec, body |-> body]
ConditionCase(varName, body, handlers) ==
    [op |-> "condition-case", var |-> varName, body |-> body, handlers |-> handlers]
UnwindProtect(protected, cleanup) ==
    [op |-> "unwind-protect", protected |-> protected, cleanup |-> cleanup]

\* The state an evaluation starts from.
EvalState ==
    [d |-> Doc, frames |-> <<env>>, trace |-> <<>>, depth |-> 0, funcs |-> funcByName]

\* env.ValueOf(sym): the innermost frame that binds the name; nil if none does.
RECURSIVE ValueOf(_, _)
ValueOf(frames, name) ==
    IF frames = <<>> THEN EmptyCons
    ELSE IF name \in DOMAIN frames[Len(frames)] THEN frames[Len(frames)][name]
    ELSE ValueOf(SubSeq(frames, 1, Len(frames) - 1), name)

\* local.BindLocallyTo(sym, value): the binding of the innermost frame is
\* created or overwritten, as dotimesImpl does for each turn of its loop.
BindLocallyTo(frames, name, value) ==
    [frames EXCEPT ![Len(frames)] = MapPut(@, name, value)]

\* golisp.NewSymbolTableFrameBelow(env, ...)
NewSymbolTableFrameBelow(frames) == Append(frames, <<>>)

\* A handler that ran in a frame below hands the frames of its caller back.
Leave(o, frames) == [o EXCEPT !.st.frames = SubSeq(@, 1, Len(frames))]

RECURSIVE golispEval(_, _)

RECURSIVE evalLetBody(_, _, _)
evalLetBody(body, st, result) ==
    IF body = <<>> THEN {Value(st, result)}
    ELSE UNION {IF o.ok THEN evalLetBody(Tail(body), o.st, o.val) ELSE {o} :
                o \in golispEval(Head(body), st)}

throwImpl(form, st) == {Failure(st, throwSignal(featureName(form.tag), form.value))}

signalImpl(form, st) ==
    IF ~SymbolP(form.cond)
    THEN {Failure(st, fmtErrorf("signal expects condition symbol"))}
    ELSE {Failure(st, elSignal(form.cond.sym, form.data))}

RECURSIVE CatchBody(_, _, _, _)
CatchBody(body, tag, st, result) ==
    IF body = <<>> THEN {Value(st, result)}
    ELSE UNION {IF o.ok THEN CatchBody(Tail(body), tag, o.st, o.val)
                ELSE IF o.err.kind = "throw" /\ o.err.name = tag
                THEN {Value(o.st, o.err.data)}
                ELSE {o} :
                o \in golispEval(Head(body), st)}

catchImpl(form, st) ==
    UNION {IF ~t.ok THEN {t}
           ELSE CatchBody(form.body, featureName(t.val), t.st, EmptyCons) :
           t \in golispEval(form.tag, st)}

\* The walk of conditionNameMatches from c up the parents; seen holds the
\* names visited.
RECURSIVE ParentWalk(_, _, _)
ParentWalk(spec, c, seen) ==
    IF c = "" \/ c \in seen THEN FALSE
    ELSE IF c = spec THEN TRUE
    ELSE IF c = "error" THEN FALSE
    ELSE ParentWalk(spec, IF c \in DOMAIN errorParents THEN errorParents[c] ELSE "",
                    seen \cup {c})

\* conditionNameMatches without the walk up the parents.
conditionNameMatches_NoWalk(spec, errCond) ==
    IF spec = "t" THEN TRUE
    ELSE spec = errCond

conditionNameMatches(spec, errCond) ==
    IF spec = "t" THEN TRUE
    ELSE IF ParentWalk(spec, errCond, {}) THEN TRUE
    ELSE spec = "error" /\ errCond = "error"

conditionCaseMatches(spec, errCond) ==
    IF SymbolP(spec) THEN conditionNameMatches(spec.sym, errCond)
    ELSE IF ListP(spec)
    THEN \E i \in 1..Len(spec.list) :
            SymbolP(spec.list[i]) /\ conditionNameMatches(spec.list[i].sym, errCond)
    ELSE FALSE

\* errCond of conditionCaseImpl.
ErrCond(e) ==
    IF e.kind = "throw" THEN "throw"
    ELSE IF e.kind = "signal" /\ e.name # "" THEN e.name
    ELSE "error"

conditionCaseErrorObject(errCond, e) ==
    IF e.kind = "signal" /\ e.data # EmptyCons
    THEN List(<<Intern(errCond), e.data>>)
    ELSE List(<<Intern(errCond), [text |-> ErrorText(e)]>>)

\* The loop of conditionCaseImpl over the handler clauses from the i-th on.
RECURSIVE TryHandlers(_, _, _, _)
TryHandlers(form, i, o, errCond) ==
    IF i > Len(form.handlers) THEN {o}
    ELSE IF ~conditionCaseMatches(form.handlers[i].spec, errCond)
    THEN TryHandlers(form, i + 1, o, errCond)
    ELSE IF form.var # "nil"
    THEN LET local == BindLocallyTo(NewSymbolTableFrameBelow(o.st.frames), form.var,
                                    conditionCaseErrorObject(errCond, o.err))
         IN  {Leave(r, o.st.frames) :
              r \in evalLetBody(form.handlers[i].body, [o.st EXCEPT !.frames = local],
                                EmptyCons)}
    ELSE evalLetBody(form.handlers[i].body, o.st, EmptyCons)

\* conditionCaseImpl passing over its first handler clause.
conditionCaseImpl_SkipFirst(form, st) ==
    UNION {IF o.ok THEN {o} ELSE TryHandlers(form, 2, o, ErrCond(o.err)) :
           o \in golispEval(form.body, st)}

conditionCaseImpl(form, st) ==
    UNION {IF o.ok THEN {o} ELSE TryHandlers(form, 1, o, ErrCond(o.err)) :
           o \in golispEval(form.body, st)}

\* The cleanup loop of unwindProtectImpl: cleanupErr keeps the first failure.
RECURSIVE Cleanup(_, _, _)
Cleanup(cleanup, st, cleanupErr) ==
    IF cleanup = <<>> THEN {[st |-> st, cleanupErr |-> cleanupErr]}
    ELSE UNION {Cleanup(Tail(cleanup), o.st,
                        IF ~o.ok /\ cleanupErr = NoError THEN o.err ELSE cleanupErr) :
                o \in golispEval(Head(cleanup), st)}

\* unwindProtectImpl leaving at once when the protected form fails.
unwindProtectImpl_NoCleanupOnFailure(form, st) ==
    UNION {IF ~run.ok THEN {run}
           ELSE {IF c.cleanupErr # NoError THEN Failure(c.st, c.cleanupErr)
                 ELSE Value(c.st, run.val) :
                 c \in Cleanup(form.cleanup, run.st, NoError)} :
           run \in golispEval(form.protected, st)}

unwindProtectImpl(form, st) ==
    UNION {{IF ~run.ok THEN Failure(c.st, run.err)
            ELSE IF c.cleanupErr # NoError THEN Failure(c.st, c.cleanupErr)
            ELSE Value(c.st, run.val) :
            c \in Cleanup(form.cleanup, run.st, NoError)} :
           run \in golispEval(form.protected, st)}

\* The buffer primitives as forms; their arguments are already evaluated.
SwitchToBuffer(name) == [op |-> "switch-to-buffer", name |-> name]
GetBufferCreate(name) == [op |-> "get-buffer-create", name |-> name]
KillCurrentBuffer == [op |-> "kill-buffer"]
SelectWindow(w) == [op |-> "select-window", w |-> w]
SaveCurrentBuffer(body) == [op |-> "save-current-buffer", body |-> body]
WithCurrentBuffer(buffer, body) ==
    [op |-> "with-current-buffer", buffer |-> buffer, body |-> body]
WithTempBuffer(body) == [op |-> "with-temp-buffer", body |-> body]

\* buf.object as a Lisp value.
BufferObject(b) == [buffer |-> b]

\* bufferNameFromArg on a value reached during an evaluation.
BufferNameOf(d, v) ==
    IF "buffer" \in DOMAIN v THEN d.heap[v.buffer].name ELSE featureName(v)

SwitchToBufferForm(form, st) ==
    LET e == ensureBuffer(st.d, form.name)
    IN  {Value([st EXCEPT !.d = d], BufferObject(e.b)) : d \in SetSelectedBuffer(e.d, e.b)}

GetBufferCreateForm(form, st) ==
    LET e == ensureBuffer(st.d, form.name)
    IN  {Value([st EXCEPT !.d = e.d], BufferObject(e.b))}

KillBufferForm(form, st) ==
    {Value([st EXCEPT !.d = d], Intern("t")) :
     d \in KillBuffer(st.d, FALSE, [obj |-> Nil, str |-> ""])}

SelectWindowForm(form, st) ==
    IF form.w \notin DOMAIN st.d.windows
    THEN {Failure(st, fmtErrorf("select-window expects window object"))}
    ELSE {Value([st EXCEPT !.d.selectedWindowID = form.w], [window |-> form.w])}

\* The function the scoped forms defer: the buffer of the window selected at
\* exit becomes orig again.
RestoreBuffer(o, orig) ==
    IF orig = Nil THEN {o}
    ELSE {[o EXCEPT !.st.d = d] : d \in SetSelectedBuffer(o.st.d, orig)}

saveCurrentBufferImpl(form, st) ==
    UNION {UNION {RestoreBuffer(o, c.b) :
                  o \in evalLetBody(form.body, [st EXCEPT !.d = c.d], EmptyCons)} :
           c \in currentBuffer(st.d)}

withCurrentBufferImpl(form, st) ==
    UNION {IF ~bv.ok THEN {bv}
           ELSE UNION {UNION {UNION {RestoreBuffer(o, c.b) :
                                     o \in evalLetBody(form.body,
                                                       [bv.st EXCEPT !.d = e.d],
                                                       EmptyCons)} :
                              e \in SetSelectedToEnsured(c.d, BufferNameOf(c.d, bv.val))} :
                       c \in currentBuffer(bv.st.d)} :
           bv \in golispEval(form.buffer, st)}

\* fmt.Sprintf("*temp-%d*", time.Now().UnixNano()): a name no earlier call has
\* used; the model numbers the names by the buffers allocated so far.
TempName(d) == "*temp-" \o ToString(Len(d.heap)) \o "*"

\* The function withTempBufferImpl defers.
RemoveTemp(o, name, orig) ==
    RestoreBuffer([o EXCEPT !.st.d.buffers = MapDelete(@, name)], orig)

withTempBufferImpl(form, st) ==
    UNION {LET name == TempName(c.d)
               e == ensureBuffer(c.d, name)
           IN  UNION {UNION {RemoveTemp(o, name, c.b) :
                             o \in evalLetBody(form.body, [st EXCEPT !.d = d],
                                               EmptyCons)} :
                      d \in SetSelectedBuffer(e.d, e.b)} :
           c \in currentBuffer(st.d)}

\* Binding forms.  A binding is a name with at most one initializer, and the
\* default of a defvar is given or not, so init and value hold at most one form.
Binding(name, init) == [name |-> name, init |-> init]
Let(bindings, body) == [op |-> "let", bindings |-> bindings, body |-> body]
LetStar(bindings, body) == [op |-> "let*", bindings |-> bindings, body |-> body]
Defvar(name, value) == [op |-> "defvar", name |-> name, value |-> value]
Plus(a, b) == [op |-> "+", a |-> a, b |-> b]

IntegerP(v) == "int" \in DOMAIN v

\* (+ a b): the arguments are evaluated in order; nil is not a number.
PlusForm(form, st) ==
    UNION {IF ~x.ok THEN {x}
           ELSE {IF ~y.ok THEN y
                 ELSE IF IntegerP(x.val) /\ IntegerP(y.val)
                 THEN Value(y.st, IntegerWithValue(x.val.int + y.val.int))
                 ELSE Failure(y.st, fmtErrorf("Number expected")) :
                 y \in golispEval(form.b, x.st)} :
           x \in golispEval(form.a, st)}

\* parseElispLetBindings(forms, env, false): every initializer is evaluated in
\* env and the pairs are collected.
RECURSIVE parseElispLetBindings(_, _, _)
parseElispLetBindings(forms, st, bindings) ==
    IF forms = <<>> THEN {[ok |-> TRUE, st |-> st, bindings |-> bindings, err |-> NoError]}
    ELSE LET b == Head(forms)
         IN  IF b.init = <<>>
             THEN parseElispLetBindings(Tail(forms), st,
                                        Append(bindings, [name |-> b.name, value |-> EmptyCons]))
             ELSE UNION {IF o.ok
                         THEN parseElispLetBindings(Tail(forms), o.st,
                                  Append(bindings, [name |-> b.name, value |-> o.val]))
                         ELSE {[ok |-> FALSE, st |-> o.st, bindings |-> bindings,
                                err |-> o.err]} :
                         o \in golispEval(b.init[1], st)}

\* for _, b := range bindings { local.BindLocallyTo(b.name, b.value) }
RECURSIVE BindAll(_, _)
BindAll(frames, bindings) ==
    IF bindings = <<>> THEN frames
    ELSE BindAll(BindLocallyTo(frames, Head(bindings).name, Head(bindings).value),
                 Tail(bindings))

\* The loop of letStarImpl: each initializer is evaluated in local, the frame
\* on top of st.frames, and its name is bound there before the next one.
RECURSIVE LetStarBind(_, _)
LetStarBind(forms, st) ==
    IF forms = <<>> THEN {[ok |-> TRUE, st |-> st, err |-> NoError]}
    ELSE LET b == Head(forms)
         IN  IF b.init = <<>>
             THEN LetStarBind(Tail(forms),
                              [st EXCEPT !.frames = BindLocallyTo(@, b.name, EmptyCons)])
             ELSE UNION {IF o.ok
                         THEN LetStarBind(Tail(forms),
                                  [o.st EXCEPT !.frames = BindLocallyTo(@, b.name, o.val)])
                         ELSE {[ok |-> FALSE, st |-> o.st, err |-> o.err]} :
                         o \in golispEval(b.init[1], st)}

letStarImpl(form, st) ==
    UNION {IF ~p.ok THEN {Leave(Failure(p.st, p.err), st.frames)}
           ELSE {Leave(o, st.frames) : o \in evalLetBody(form.body, p.st, EmptyCons)} :
           p \in LetStarBind(form.bindings,
                             [st EXCEPT !.frames = NewSymbolTableFrameBelow(@)])}

\* let binding as let* does.
letImpl_Sequential(form, st) == letStarImpl(form, st)

letImpl(form, st) ==
    UNION {IF ~p.ok THEN {Failure(p.st, p.err)}
           ELSE {Leave(o, st.frames) :
                 o \in evalLetBody(form.body,
                                   [p.st EXCEPT !.frames =
                                       BindAll(NewSymbolTableFrameBelow(@), p.bindings)],
                                   EmptyCons)} :
           p \in parseElispLetBindings(form.bindings, st, <<>>)}

\* defvar, defvar-local, defconst and defcustom.
defvarImpl(form, st) ==
    IF form.value = <<>>
    THEN {Value([st EXCEPT !.frames = BindLocallyTo(@, form.name, EmptyCons)],
                Intern(form.name))}
    ELSE {IF ~o.ok THEN o
          ELSE Value([o.st EXCEPT !.frames = BindLocallyTo(@, form.name, o.val)],
                     Intern(form.name)) :
          o \in golispEval(form.value[1], st)}

(***************************************************************************)
(* Functions: defun and the call of a function it defined.                 *)
(***************************************************************************)
\* (defun name params body...) and (name args...).
Defun(name, params, body) ==
    [op |-> "defun", name |-> name, params |-> params, body |-> body]

Call(name, args) == [op |-> "call", name |-> name, args |-> args]

hasElispArgMarkers(params) ==
    \E i \in 1..Len(params) : params[i] \in {"&optional", "&rest"}

\* The function object defunImpl makes: a primitive built by
\* makeElispDefunWithOptional when the parameter list has a marker, a function
\* of the library otherwise.
FunctionObject(name, params, body) ==
    [fn |-> name, params |-> params, body |-> body,
     primitive |-> hasElispArgMarkers(params)]

FunctionOrPrimitiveP(v) == "fn" \in DOMAIN v

\* rt.registerFunction(name, fn)
registerFunction(funcs, name, fn) == IF name = "" THEN funcs ELSE MapPut(funcs, name, fn)

\* defunImpl: an empty body becomes (nil); the name is bound in the frame of
\* the definition and recorded in rt.funcByName.
defunImpl(form, st) ==
    LET body == IF form.body = <<>> THEN <<Const(EmptyCons)>> ELSE form.body
        fn == FunctionObject(form.name, form.params, body)
    IN  {Value([st EXCEPT !.frames = BindLocallyTo(@, form.name, fn),
                          !.funcs = registerFunction(@, form.name, fn)],
               fn)}

\* The loop of parseElispParamSpec over a list of parameter names.
RECURSIVE ParamSpecFrom(_, _, _)
ParamSpecFrom(params, mode, spec) ==
    IF params = <<>> THEN [ok |-> TRUE, spec |-> spec, err |-> NoError]
    ELSE LET name == Head(params)
         IN  IF name = "&optional" THEN ParamSpecFrom(Tail(params), "optional", spec)
             ELSE IF name = "&rest" THEN ParamSpecFrom(Tail(params), "rest", spec)
             ELSE IF mode = "required"
             THEN ParamSpecFrom(Tail(params), mode,
                                [spec EXCEPT !.required = Append(@, name)])
             ELSE IF mode = "optional"
             THEN ParamSpecFrom(Tail(params), mode,
                                [spec EXCEPT !.optional = Append(@, name)])
             ELSE IF mode = "rest"
             THEN ParamSpecFrom(Tail(params), "after-rest",
                                [spec EXCEPT !.rest = <<name>>])
             ELSE [ok |-> FALSE, spec |-> spec,
                   err |-> fmtErrorf("unexpected parameter after &rest: " \o name)]

parseElispParamSpec(params) ==
    ParamSpecFrom(params, "required",
                  [required |-> <<>>, optional |-> <<>>, rest |-> <<>>])

\* "%s expected at least %d parameters, received %d"
expectedAtLeast(fnName, n, received) ==
    fnName \o " expected at least " \o ToString(n) \o " parameters, received "
           \o ToString(received)

\* "%s expected %d parameters, received %d"
expectedParameters(fnName, n, received) ==
    fnName \o " expected " \o ToString(n) \o " parameters, received "
           \o ToString(received)

\* The body of the primitive makeElispDefunWithOptional builds, applied to the
\* evaluated arguments argArr: the required names take the first arguments,
\* each optional name the next one or nil, the rest name the list of what is
\* left; idx counts the arguments consumed.
makeElispDefunWithOptional(fn, argArr, st) ==
    LET p == parseElispParamSpec(fn.params)
        spec == p.spec
        n == Len(argArr)
        R == Len(spec.required)
        O == Len(spec.optional)
        idx == IF n < R + O THEN n ELSE R + O
        required == [i \in 1..R |-> [name |-> spec.required[i], value |-> argArr[i]]]
        optional == [i \in 1..O |->
                        [name |-> spec.optional[i],
                         value |-> IF R + i <= n THEN argArr[R + i] ELSE EmptyCons]]
        rest == IF spec.rest = <<>> THEN <<>>
                ELSE <<[name |-> spec.rest[1],
                        value |-> IF idx < n THEN List(SubSeq(argArr, idx + 1, n))
                                  ELSE EmptyCons]>>
        consumed == IF spec.rest = <<>> THEN idx ELSE n
        local == BindAll(NewSymbolTableFrameBelow(st.frames),
                         required \o optional \o rest)
    IN  IF ~p.ok THEN {Failure(st, p.err)}
        ELSE IF n < R THEN {Failure(st, fmtErrorf(expectedAtLeast(fn.fn, R, n)))}
        ELSE IF consumed < n
        THEN {Failure(st, fmtErrorf(expectedParameters(fn.fn, consumed, n)))}
        ELSE {Leave(o, st.frames) :
              o \in evalLetBody(fn.body, [st EXCEPT !.frames = local], EmptyCons)}

\* The function golisp.FunctionWithNameParamsBodyAndParent makes, applied to
\* the evaluated arguments: it takes exactly as many arguments as it has
\* parameters, and reports another count in the words parseExpectedArgCount
\* reads.
FunctionWithNameParamsBodyAndParent(fn, argArr, st) ==
    LET n == Len(argArr)
        bound == [i \in 1..n |-> [name |-> fn.params[i], value |-> argArr[i]]]
    IN  IF n # Len(fn.params)
        THEN {Failure(st, fmtErrorf(expectedParameters(fn.fn, Len(fn.params), n)))}
        ELSE {Leave(o, st.frames) :
              o \in evalLetBody(fn.body,
                                [st EXCEPT !.frames =
                                    BindAll(NewSymbolTableFrameBelow(@), bound)],
                                EmptyCons)}

\* The arguments of a call are evaluated from left to right in the caller's
\* frame before the function is applied.
RECURSIVE EvalArgs(_, _, _)
EvalArgs(args, st, argArr) ==
    IF args = <<>> THEN {[ok |-> TRUE, st |-> st, err |-> NoError, argArr |-> argArr]}
    ELSE UNION {IF ~o.ok
                THEN {[ok |-> FALSE, st |-> o.st, err |-> o.err, argArr |-> argArr]}
                ELSE EvalArgs(Tail(args), o.st, Append(argArr, o.val)) :
                o \in golispEval(Head(args), st)}

\* (name args...): the value of the name is applied to the evaluated arguments.
CallForm(form, st) ==
    LET fn == ValueOf(st.frames, form.name)
    IN  IF ~FunctionOrPrimitiveP(fn)
        THEN {Failure(st, fmtErrorf("function or macro expected for " \o form.name \o "."))}
        ELSE UNION {IF ~a.ok THEN {Failure(a.st, a.err)}
                    ELSE IF fn.primitive
                    THEN makeElispDefunWithOptional(fn, a.argArr, a.st)
                    ELSE FunctionWithNameParamsBodyAndParent(fn, a.argArr, a.st) :
                    a \in EvalArgs(form.args, st, <<>>)}

(***************************************************************************)
(* pcase.                                                                  *)
(***************************************************************************)
\* (pcase subject (pattern body...)...): the patterns are data.
PcaseClause(pat, body) == [pat |-> pat, body |-> body]
Pcase(subject, clauses) == [op |-> "pcase", subject |-> subject, clauses |-> clauses]

PairP(v) == ListP(v) /\ v.list # <<>>

NoBinding == ""

\* pcasePatternMatch(pattern, value): whether the pattern matches and the
\* name to bind, NoBinding for none.
RECURSIVE pcasePatternMatch(_, _)
RECURSIVE OrPatterns(_, _)
OrPatterns(pats, value) ==
    IF pats = <<>> THEN [ok |-> FALSE, bind |-> NoBinding]
    ELSE LET m == pcasePatternMatch(Head(pats), value)
         IN  IF m.ok THEN m ELSE OrPatterns(Tail(pats), value)

pcasePatternMatch(pattern, value) ==
    IF SymbolP(pattern)
    THEN IF pattern.sym \in {"_", "t"} THEN [ok |-> TRUE, bind |-> NoBinding]
         ELSE [ok |-> TRUE, bind |-> pattern.sym]
    ELSE IF PairP(pattern) /\ pattern.list[1] = Intern("quote")
    THEN [ok |-> (IF Len(pattern.list) >= 2 THEN pattern.list[2] ELSE EmptyCons) = value,
          bind |-> NoBinding]
    ELSE IF PairP(pattern) /\ pattern.list[1] = Intern("or")
    THEN OrPatterns(Tail(pattern.list), value)
    ELSE [ok |-> pattern = value, bind |-> NoBinding]

\* The loop of pcaseImpl over the clauses from the i-th on.
RECURSIVE PcaseFrom(_, _, _, _)
PcaseFrom(clauses, i, target, st) ==
    IF i > Len(clauses) THEN {Value(st, EmptyCons)}
    ELSE LET m == pcasePatternMatch(clauses[i].pat, target)
         IN  IF ~m.ok THEN PcaseFrom(clauses, i + 1, target, st)
             ELSE IF m.bind # NoBinding
             THEN {Leave(o, st.frames) :
                   o \in evalLetBody(clauses[i].body,
                                     [st EXCEPT !.frames =
                                         BindLocallyTo(NewSymbolTableFrameBelow(@),
                                                       m.bind, target)],
                                     EmptyCons)}
             ELSE evalLetBody(clauses[i].body, st, EmptyCons)

pcaseImpl_SkipFirst(form, st) ==
    UNION {IF ~t.ok THEN {t} ELSE PcaseFrom(form.clauses, 2, t.val, t.st) :
           t \in golispEval(form.subject, st)}

pcaseImpl(form, st) ==
    UNION {IF ~t.ok THEN {t} ELSE PcaseFrom(form.clauses, 1, t.val, t.st) :
           t \in golispEval(form.subject, st)}

(***************************************************************************)
(* ignore-errors, call-fn and the failure of a name without a binding.     *)
(***************************************************************************)
IgnoreErrors(body) == [op |-> "ignore-errors", body |-> body]
CallFn(args) == [op |-> "call-fn", args |-> args]

\* The loop of ignoreErrorsImpl over the forms from the first of body on.
RECURSIVE IgnoreFrom(_, _, _)
IgnoreFrom(body, st, result) ==
    IF body = <<>> THEN {Value(st, result)}
    ELSE UNION {IF ~o.ok THEN {Value(o.st, EmptyCons)}
                ELSE IgnoreFrom(Tail(body), o.st, o.val) :
                o \in golispEval(Head(body), st)}

ignoreErrorsImpl(form, st) == IgnoreFrom(form.body, st, EmptyCons)

\* call-fn is a primitive: its arguments are evaluated, the first names the
\* function in rt.funcByName.
callFnImpl(form, st) ==
    UNION {IF ~a.ok THEN {Failure(a.st, a.err)}
           ELSE LET name == featureName(a.argArr[1])
                    fn == IF name \in DOMAIN a.st.funcs THEN a.st.funcs[name] ELSE EmptyCons
                IN  IF ~FunctionOrPrimitiveP(fn)
                    THEN {Failure(a.st, fmtErrorf("call-fn unknown function: " \o name))}
                    ELSE IF fn.primitive
                    THEN makeElispDefunWithOptional(fn, Tail(a.argArr), a.st)
                    ELSE FunctionWithNameParamsBodyAndParent(fn, Tail(a.argArr), a.st) :
           a \in EvalArgs(form.args, st, <<>>)}

\* golisp.Eval(form, env): the form is recorded, then its handler is applied.
golispEval(form, st) ==
    LET st1 == [st EXCEPT !.trace = Append(@, [form |-> form, depth |-> st.depth]),
                          !.depth = @ + 1]
        outs == CASE form.op = "const" -> {Value(st1, form.v)}
                  [] form.op = "var" -> {Value(st1, ValueOf(st1.frames, form.name))}
                  [] form.op = "throw" -> throwImpl(form, st1)
                  [] form.op = "signal" -> signalImpl(form, st1)
                  [] form.op = "catch" -> catchImpl(form, st1)
                  [] form.op = "condition-case" -> conditionCaseImpl(form, st1)
                  [] form.op = "unwind-protect" -> unwindProtectImpl(form, st1)
                  [] form.op = "switch-to-buffer" -> SwitchToBufferForm(form, st1)
                  [] form.op = "get-buffer-create" -> GetBufferCreateForm(form, st1)
                  [] form.op = "kill-buffer" -> KillBufferForm(form, st1)
                  [] form.op = "select-window" -> SelectWindowForm(form, st1)
                  [] form.op = "save-current-buffer" -> saveCurrentBufferImpl(form, st1)
                  [] form.op = "with-current-buffer" -> withCurrentBufferImpl(form, st1)
                  [] form.op = "with-temp-buffer" -> withTempBufferImpl(form, st1)
                  [] form.op = "+" -> PlusForm(form, st1)
                  [] form.op = "let" -> letImpl(form, st1)
                  [] form.op = "let*" -> letStarImpl(form, st1)
                  [] form.op = "defvar" -> defvarImpl(form, st1)
                  [] form.op = "defun" -> defunImpl(form, st1)
                  [] form.op = "call" -> CallForm(form, st1)
                  [] form.op = "pcase" -> pcaseImpl(form, st1)
                  [] form.op = "ignore-errors" -> ignoreErrorsImpl(form, st1)
                  [] form.op = "call-fn" -> callFnImpl(form, st1)
    IN  {[o EXCEPT !.st.depth = st.depth] : o \in outs}

\* A form read from the program is evaluated in rt.env.
Evaluate(form) ==
    /\ ~panicked
    /\ \E o \in golispEval(form, EvalState) :
          /\ Fits(o.st.d)
          /\ SetDoc(o.st.d)
          /\ env' = o.st.frames[1]
          /\ funcByName' = o.st.funcs
          /\ last' = [op |-> "eval", ret |-> 0, str |-> <<>>, matched |-> FALSE,
                      form |-> form, ok |-> o.ok, val |-> o.val, err |-> o.err,
                      trace |-> o.st.trace]
    /\ UNCHANGED <<matchVars, configs, panicked, kmVars, errorParents, loop, scanner, tmVars, ldVars>>

\* The sequences over S of at most n elements.
BodiesOf(S, n) == UNION {[1..k -> S] : k \in 0..n}

(***************************************************************************)
(* catch and throw.                                                        *)
(***************************************************************************)
Tags == {Intern("k"), StringWithValue("k"), Intern("j")}
CatchLeaves == {Const(IntegerWithValue(99))} \cup {Throw(t, IntegerWithValue(42)) : t \in Tags}
CatchForms ==
    {Catch(Const(t), b) : t \in Tags, b \in BodiesOf(CatchLeaves, MaxBody)}
        \cup {Catch(Const(t), <<Catch(Const(u), b)>> \o c) :
                t \in Tags, u \in Tags, b \in BodiesOf(CatchLeaves, 1),
                c \in BodiesOf({Const(IntegerWithValue(99))}, 1)}

NextCatch == \E form \in CatchForms : Evaluate(form)

SpecCatch == Init /\ [][NextCatch]_vars

(***************************************************************************)
(* Conditions: define-error, signal and condition-case.                    *)
(***************************************************************************)
\* (define-error name message [parent]): the parent is error unless a symbol
\* is given as the third argument.
defineErrorImpl(name, hasParent, parent) ==
    /\ ~panicked
    /\ errorParents' = MapPut(errorParents, name, IF hasParent THEN parent ELSE "error")
    /\ env' = MapPut(env, name, Intern(name))
    /\ Returned("define-error", 0)
    /\ UNCHANGED <<docVars, matchVars, panicked, kmVars, funcByName, loop, scanner, tmVars, ldVars>>

ConditionNames == {"my-err", "sub-err"}

CondBodies ==
    {Const(IntegerWithValue(42)),
     Signal(Intern("my-err"), EmptyCons),
     Signal(Intern("sub-err"), IntegerWithValue(7)),
     Signal(Intern("quit"), EmptyCons),
     Signal(StringWithValue("my-err"), EmptyCons),
     Throw(Intern("k"), IntegerWithValue(42))}

HandlerSpecs ==
    {Intern("error"), Intern("my-err"), Intern("t"),
     List(<<Intern("quit"), Intern("sub-err")>>), IntegerWithValue(1)}

\* Handler clauses, at least one as the form requires; the body of the i-th
\* clause is the constant i.
HandlerLists ==
    {[i \in 1..Len(specs) |-> Clause(specs[i], <<Const(IntegerWithValue(i))>>)] :
     specs \in BodiesOf(HandlerSpecs, 2) \ {<<>>}}

ConditionForms ==
    {ConditionCase("nil", b, h) : b \in CondBodies, h \in HandlerLists}
        \cup {ConditionCase("e", b, <<Clause(Intern("t"), <<Var("e")>>)>>) :
                b \in CondBodies}
        \cup {ConditionCase("nil",
                             ConditionCase("nil", b,
                                           <<Clause(s1, <<Const(IntegerWithValue(1))>>)>>),
                             <<Clause(s2, <<Const(IntegerWithValue(2))>>)>>) :
                b \in CondBodies, s1 \in HandlerSpecs, s2 \in HandlerSpecs}

NextCondition ==
    \/ \E name \in ConditionNames, hasParent \in BOOLEAN, parent \in ConditionNames :
          defineErrorImpl(name, hasParent, parent)
    \/ \E form \in ConditionForms : Evaluate(form)

SpecCondition == Init /\ [][NextCondition]_vars

(***************************************************************************)
(* unwind-protect.                                                         *)
(***************************************************************************)
ProtectedForms ==
    {Const(IntegerWithValue(42)),
     Signal(Intern("my-err"), IntegerWithValue(7)),
     Throw(Intern("k"), IntegerWithValue(42)),
     ConditionCase("nil", Signal(Intern("quit"), EmptyCons),
                   <<Clause(Intern("t"), <<Const(IntegerWithValue(5))>>)>>)}

CleanupForms ==
    {Const(IntegerWithValue(1)), Const(IntegerWithValue(2)),
     Signal(Intern("quit"), EmptyCons),
     Signal(Intern("sub-err"), IntegerWithValue(7)),
     Throw(Intern("j"), IntegerWithValue(7))}

UnwindForms ==
    {UnwindProtect(p, c) : p \in ProtectedForms, c \in BodiesOf(CleanupForms, MaxBody)}

NextUnwind == \E form \in UnwindForms : Evaluate(form)

SpecUnwind == Init /\ [][NextUnwind]_vars

(***************************************************************************)
(* The scoped-buffer forms.                                                *)
(***************************************************************************)
BufferForms ==
    {SwitchToBuffer("game"), KillCurrentBuffer, SelectWindow(1)}

ScopedBodyForms ==
    BufferForms \cup {Throw(Intern("k"), IntegerWithValue(42)),
                      Signal(Intern("quit"), EmptyCons)}

BufferDesignators ==
    {Const(StringWithValue("game")), GetBufferCreate("*scratch*"), SwitchToBuffer("game")}

\* with-current-buffer and with-temp-buffer require a body form.
ScopedForms ==
    {SaveCurrentBuffer(b) : b \in BodiesOf(ScopedBodyForms, MaxBody)}
        \cup {WithCurrentBuffer(a, b) :
                a \in BufferDesignators,
                b \in BodiesOf(ScopedBodyForms, MaxBody) \ {<<>>}}
        \cup {WithTempBuffer(b) : b \in BodiesOf(ScopedBodyForms, MaxBody) \ {<<>>}}

NextScoped ==
    \/ \E form \in BufferForms : Evaluate(form)
    \/ \E form \in ScopedForms : Evaluate(form)

SpecScoped == Init /\ [][NextScoped]_vars

(***************************************************************************)
(* Variables: defvar, let and let*.                                        *)
(***************************************************************************)
DefaultForms == {Const(IntegerWithValue(1)), Const(IntegerWithValue(2))}

DefvarForms == {Defvar("x", v) : v \in BodiesOf(DefaultForms, 1)}

Bindings ==
    {Binding("x", <<>>), Binding("x", <<Const(IntegerWithValue(1))>>),
     Binding("y", <<Var("x")>>),
     Binding("y", <<Plus(Var("x"), Const(IntegerWithValue(1)))>>)}

LetBodies == {<<Var("x")>>, <<Var("y")>>}

LetForms ==
    {Let(bs, body) : bs \in BodiesOf(Bindings, MaxBody), body \in LetBodies}
        \cup {LetStar(bs, body) : bs \in BodiesOf(Bindings, MaxBody), body \in LetBodies}

NextBind ==
    \/ \E form \in DefvarForms : Evaluate(form)
    \/ \E form \in LetForms : Evaluate(form)

SpecBind == Init /\ [][NextBind]_vars

\* The functions defined and the calls made: parameter lists with and without
\* &optional and &rest, and calls of up to MaxArgs arguments.
ParamLists ==
    {<<>>, <<"a", "b">>, <<"a", "&optional", "b">>, <<"a", "&rest", "b">>,
     <<"&optional", "a", "b">>, <<"a", "&optional", "b", "&rest", "c">>}

DefunBodies == {<<>>, <<Var("a")>>, <<Var("b")>>}

DefunForms == {Defun("f", params, body) : params \in ParamLists, body \in DefunBodies}

ArgForms == {Const(IntegerWithValue(1)), Const(IntegerWithValue(2))}

CallForms == {Call("f", args) : args \in BodiesOf(ArgForms, MaxArgs)}

NextDefun ==
    \/ \E form \in DefunForms : Evaluate(form)
    \/ \E form \in CallForms : Evaluate(form)

SpecDefun == Init /\ [][NextDefun]_vars

(***************************************************************************)
(* Replacement templates.                                                  *)
(***************************************************************************)
\* The replacement replace-match computes from its first argument, its
\* literal flag and the matched strings.
ExpandReplacement(repl, literal, matched) ==
    /\ ~panicked
    /\ last' = [op |-> "replacement", ret |-> 0, str |-> Replacement(repl, literal, matched),
                matched |-> FALSE, repl |-> repl, literal |-> literal, groups |-> matched]
    /\ UNCHANGED <<docVars, matchVars, panicked, kmVars, evVars>>

\* backslash, &, 0, 1 and e-acute
TemplateChars == {92, 38, 48, 49, 233}

TemplateStrings == BodiesOf(TemplateChars, MaxTemplate)

\* The string of the whole match, alone or with the string of group 1.
MatchedLists == {<<<<97, 98>>>>, <<<<97, 98>>, <<195, 169>>>>}

NextTemplate ==
    \E repl \in TemplateStrings, literal \in BOOLEAN, matched \in MatchedLists :
        ExpandReplacement(repl, literal, matched)

SpecTemplate == Init /\ [][NextTemplate]_vars

(***************************************************************************)
(* cl-loop.  The clauses are read and their expressions evaluated when the *)
(* form is entered; every turn of the loop of clLoopImpl is one step.      *)
(***************************************************************************)
maxIters == 100000

\* The datum a token of the form is before it is evaluated.
Quoted(tok) ==
    IF tok.op = "var" THEN Intern(tok.name)
    ELSE IF tok.op = "const" THEN tok.v
    ELSE List(<<Intern(tok.op)>>)

BooleanValue(v) == v # EmptyCons

\* env.SetTo(name, value): the innermost frame that binds the name takes the
\* value; FALSE if no frame binds it.
RECURSIVE SetTo(_, _, _, _)
SetTo(frames, name, value, k) ==
    IF k = 0 THEN [ok |-> FALSE, frames |-> frames]
    ELSE IF name \in DOMAIN frames[k]
    THEN [ok |-> TRUE, frames |-> [frames EXCEPT ![k] = MapPut(@, name, value)]]
    ELSE SetTo(frames, name, value, k - 1)

bindOrSetLocal(frames, name, value) ==
    LET set == SetTo(frames, name, value, Len(frames))
    IN  IF set.ok THEN set.frames ELSE BindLocallyTo(frames, name, value)

\* What reading the clauses ends with: the clauses, a value returned at once,
\* or the failure of an expression.
Parsed(clauses, st) == [kind |-> "parsed", clauses |-> clauses, st |-> st, err |-> NoError]
ReturnNil(clauses, st) == [kind |-> "return", clauses |-> clauses, st |-> st, err |-> NoError]
ParseFailed(clauses, st, err) == [kind |-> "error", clauses |-> clauses, st |-> st, err |-> err]

\* The first loop of clLoopImpl; i counts the tokens read, toks[i + 1] is the
\* token the code calls toks[i].
RECURSIVE ParseClauses(_, _, _, _)
ParseClauses(toks, i, c, st) ==
    LET n == Len(toks)
        tok(k) == featureName(Quoted(toks[k + 1]))
    IN  IF i >= n THEN {Parsed(c, st)}
        ELSE IF tok(i) \in {"do", "sum", "collect"}
        THEN {Parsed([c EXCEPT !.mode = tok(i), !.bodyStart = i + 1], st)}
        ELSE IF tok(i) = "with"
        THEN IF i + 1 >= n \/ ~SymbolP(Quoted(toks[i + 2])) THEN {ReturnNil(c, st)}
             ELSE LET name == tok(i + 1)
                      next == IF i + 2 < n /\ tok(i + 2) = "=" THEN i + 3 ELSE i + 2
                  IN  IF next < n
                      THEN UNION {IF ~o.ok THEN {ParseFailed(c, o.st, o.err)}
                                  ELSE ParseClauses(toks, next + 1, c,
                                           [o.st EXCEPT !.frames =
                                               bindOrSetLocal(@, name, o.val)]) :
                                  o \in golispEval(toks[next + 1], st)}
                      ELSE ParseClauses(toks, next, c,
                               [st EXCEPT !.frames = bindOrSetLocal(@, name, EmptyCons)])
        ELSE IF tok(i) = "while"
        THEN IF i + 1 >= n THEN {ReturnNil(c, st)}
             ELSE ParseClauses(toks, i + 2, [c EXCEPT !.whileExpr = <<toks[i + 2]>>], st)
        ELSE IF tok(i) = "repeat"
        THEN IF i + 1 >= n THEN {ReturnNil(c, st)}
             ELSE ParseClauses(toks, i + 2, [c EXCEPT !.repeatExpr = <<toks[i + 2]>>], st)
        ELSE IF tok(i) = "for"
        THEN IF i + 2 >= n \/ ~SymbolP(Quoted(toks[i + 2])) THEN {ReturnNil(c, st)}
             ELSE LET name == tok(i + 1)
                      op == tok(i + 2)
                  IN  IF op = "="
                      THEN IF i + 3 >= n THEN {ReturnNil(c, st)}
                           ELSE ParseClauses(toks, i + 4,
                                    [c EXCEPT !.forAssigns =
                                        Append(@, [name |-> name, expr |-> toks[i + 4]])],
                                    st)
                      ELSE IF op \in {"in", "across"}
                      THEN IF i + 3 >= n THEN {ReturnNil(c, st)}
                           ELSE ParseClauses(toks, i + 4,
                                    [c EXCEPT !.seqVar = name,
                                              !.seqExpr = <<toks[i + 4]>>,
                                              !.seqAcross = (op = "across")],
                                    st)
                      ELSE IF op = "below"
                      THEN IF i + 3 >= n THEN {ReturnNil(c, st)}
                           ELSE ParseClauses(toks, i + 4,
                                    [c EXCEPT !.numericVar = name,
                                              !.numericStart = <<Const(IntegerWithValue(0))>>,
                                              !.numericEnd = <<toks[i + 4]>>,
                                              !.numericStep = <<Const(IntegerWithValue(1))>>,
                                              !.numericCmp = "below"],
                                    st)
                      ELSE IF op \in {"from", "upfrom"}
                      THEN IF i + 3 >= n THEN {ReturnNil(c, st)}
                           ELSE LET by == /\ op = "upfrom"
                                          /\ i + 4 < n
                                          /\ tok(i + 4) = "by"
                                          /\ i + 5 < n
                                    j == IF by THEN i + 6 ELSE i + 4
                                    c1 == [c EXCEPT !.numericVar = name,
                                                    !.numericStart = <<toks[i + 4]>>,
                                                    !.numericStep =
                                                        IF by THEN <<toks[i + 6]>>
                                                        ELSE <<Const(IntegerWithValue(1))>>]
                                IN  IF j + 1 >= n THEN {ReturnNil(c1, st)}
                                    ELSE ParseClauses(toks, j + 2,
                                             [c1 EXCEPT !.numericCmp = tok(j),
                                                        !.numericEnd = <<toks[j + 2]>>],
                                             st)
                      ELSE ParseClauses(toks, i + 3, c, st)
        ELSE ParseClauses(toks, i + 1, c, st)

\* An optional expression is evaluated; without one the default stands.
EvalOr(expr, default, st) ==
    IF expr = <<>> THEN {Value(st, default)} ELSE golispEval(expr[1], st)

\* The value the loop ends with.
LoopValue(l) ==
    IF l.clauses.mode = "sum" THEN IntegerWithValue(l.sum)
    ELSE IF l.clauses.mode = "collect" THEN List(l.collected)
    ELSE l.result

\* What a cl-loop left behind: its value or failure, and the turns it made.
LoopReturned(ok, val, err, toks, iter) ==
    last' = [op |-> "cl-loop", ret |-> 0, str |-> <<>>, matched |-> FALSE,
             ok |-> ok, val |-> val, err |-> err, toks |-> toks, iter |-> iter]

\* The state in which the expressions of a loop are evaluated: local is the
\* frame of the loop, below the frame of the program.
LoopState(local) == [EvalState EXCEPT !.frames = <<env, local>>]

\* What an evaluation inside the loop leaves in the program's state.
LoopKeeps(st) ==
    /\ Fits(st.d)
    /\ SetDoc(st.d)
    /\ env' = st.frames[1]
    /\ funcByName' = st.funcs

\* clLoopImpl up to its loop: the clauses are read, then the sequence, the
\* numeric start, end and step and the repeat count are evaluated.  The only
\* sequences of this model are lists.
clLoopEnter(toks) ==
    /\ ~panicked
    /\ ~loop.active
    /\ \E p \in ParseClauses(toks, 0, NoClauses,
                             [EvalState EXCEPT !.frames = NewSymbolTableFrameBelow(@)]) :
          LET c == p.clauses
              numeric == c.numericVar # "" /\ c.numericEnd # <<>>
          IN  IF p.kind = "error"
              THEN /\ LoopKeeps(p.st) /\ loop' = NoLoop
                   /\ LoopReturned(FALSE, EmptyCons, p.err, toks, 0)
              ELSE IF p.kind = "return" \/ c.bodyStart < 0
              THEN /\ LoopKeeps(p.st) /\ loop' = NoLoop
                   /\ LoopReturned(TRUE, EmptyCons, NoError, toks, 0)
              ELSE \E sq \in EvalOr(c.seqExpr, EmptyCons, p.st) :
                   IF ~sq.ok
                   THEN /\ LoopKeeps(sq.st) /\ loop' = NoLoop
                        /\ LoopReturned(FALSE, EmptyCons, sq.err, toks, 0)
                   ELSE
                   \E ns \in (IF numeric THEN EvalOr(c.numericStart, IntegerWithValue(0), sq.st)
                              ELSE {Value(sq.st, IntegerWithValue(0))}) :
                   IF ~ns.ok
                   THEN /\ LoopKeeps(ns.st) /\ loop' = NoLoop
                        /\ LoopReturned(FALSE, EmptyCons, ns.err, toks, 0)
                   ELSE
                   \E ne \in (IF numeric THEN golispEval(c.numericEnd[1], ns.st)
                              ELSE {Value(ns.st, IntegerWithValue(0))}) :
                   IF ~ne.ok
                   THEN /\ LoopKeeps(ne.st) /\ loop' = NoLoop
                        /\ LoopReturned(FALSE, EmptyCons, ne.err, toks, 0)
                   ELSE
                   \E np \in (IF numeric THEN EvalOr(c.numericStep, IntegerWithValue(1), ne.st)
                              ELSE {Value(ne.st, IntegerWithValue(0))}) :
                   IF ~np.ok
                   THEN /\ LoopKeeps(np.st) /\ loop' = NoLoop
                        /\ LoopReturned(FALSE, EmptyCons, np.err, toks, 0)
                   ELSE IF ~IntegerP(ns.val) \/ ~IntegerP(ne.val) \/ ~IntegerP(np.val)
                   THEN /\ LoopKeeps(np.st) /\ loop' = NoLoop
                        /\ LoopReturned(TRUE, EmptyCons, NoError, toks, 0)
                   ELSE
                   \E rp \in EvalOr(c.repeatExpr, IntegerWithValue(-1), np.st) :
                   IF ~rp.ok
                   THEN /\ LoopKeeps(rp.st) /\ loop' = NoLoop
                        /\ LoopReturned(FALSE, EmptyCons, rp.err, toks, 0)
                   ELSE IF ~IntegerP(rp.val)
                   THEN /\ LoopKeeps(rp.st) /\ loop' = NoLoop
                        /\ LoopReturned(TRUE, EmptyCons, NoError, toks, 0)
                   ELSE /\ LoopKeeps(rp.st)
                        /\ loop' = [active |-> TRUE, toks |-> toks, clauses |-> c,
                                    hasSeq |-> c.seqExpr # <<>>,
                                    seqItems |-> IF c.seqExpr # <<>> /\ ListP(sq.val)
                                                 THEN sq.val.list ELSE <<>>,
                                    nEnd |-> IF numeric THEN ne.val.int ELSE 0,
                                    nStep |-> IF ~numeric THEN 0
                                              ELSE IF np.val.int = 0 THEN 1
                                              ELSE np.val.int,
                                    nVal |-> IF numeric THEN ns.val.int ELSE 0,
                                    repeatCount |-> IF c.repeatExpr = <<>> THEN -1
                                                    ELSE Max(rp.val.int, 0),
                                    iter |-> 0, local |-> rp.st.frames[2],
                                    result |-> EmptyCons, sum |-> 0, collected |-> <<>>]
                        /\ last' = [op |-> "cl-loop-enter", ret |-> 0, str |-> <<>>,
                                    matched |-> FALSE]
    /\ UNCHANGED <<matchVars, configs, panicked, kmVars, errorParents, scanner, tmVars, ldVars>>

\* The comparison a numeric clause makes before a turn.
NumericOk(cmp, nVal, nEnd) ==
    IF cmp = "to" THEN nVal <= nEnd
    ELSE IF cmp = "downto" THEN nVal >= nEnd
    ELSE IF cmp = "below" THEN nVal < nEnd
    ELSE TRUE

\* The for NAME = EXPR clauses, in order.
RECURSIVE ForAssigns(_, _)
ForAssigns(assigns, st) ==
    IF assigns = <<>> THEN {Value(st, EmptyCons)}
    ELSE UNION {IF ~o.ok THEN {o}
                ELSE ForAssigns(Tail(assigns),
                                [o.st EXCEPT !.frames =
                                    bindOrSetLocal(@, Head(assigns).name, o.val)]) :
                o \in golispEval(Head(assigns).expr, st)}

\* The loop has ended with its value.
LoopDone(l, st) ==
    /\ LoopKeeps(st)
    /\ loop' = NoLoop
    /\ LoopReturned(TRUE, LoopValue(l), NoError, l.toks, l.iter)

\* The loop has ended with the failure of an expression.
LoopFailed(l, o) ==
    /\ LoopKeeps(o.st)
    /\ loop' = NoLoop
    /\ LoopReturned(FALSE, EmptyCons, o.err, l.toks, l.iter)

\* The body of one turn, by mode; the turn is counted after it.
LoopBody(l, st) ==
    LET c == l.clauses
        body == SubSeq(l.toks, c.bodyStart + 1, Len(l.toks))
        next == [l EXCEPT !.iter = @ + 1,
                          !.nVal = IF c.numericVar # "" THEN @ + l.nStep ELSE @]
    IN  IF c.mode \in {"sum", "collect"}
        THEN IF body = <<>>
             THEN /\ LoopKeeps(st)
                  /\ loop' = [next EXCEPT !.local = st.frames[2]]
                  /\ UNCHANGED last
             ELSE \E o \in golispEval(body[1], st) :
                     IF ~o.ok THEN LoopFailed(l, o)
                     ELSE /\ LoopKeeps(o.st)
                          /\ loop' = [next EXCEPT
                                 !.local = o.st.frames[2],
                                 !.sum = IF c.mode = "sum" /\ IntegerP(o.val)
                                         THEN @ + o.val.int ELSE @,
                                 !.collected = IF c.mode = "collect"
                                               THEN Append(@, o.val) ELSE @]
                          /\ UNCHANGED last
        ELSE \E o \in evalLetBody(body, st, l.result) :
                IF ~o.ok THEN LoopFailed(l, o)
                ELSE /\ LoopKeeps(o.st)
                     /\ loop' = [next EXCEPT !.local = o.st.frames[2], !.result = o.val]
                     /\ UNCHANGED last

\* The hard cap on the turns of one loop.
CapReached_Late(iter) == iter > maxIters

CapReached(iter) == iter >= maxIters

\* One turn of the loop of clLoopImpl: the cap, then the repeat count, the
\* sequence, the numeric bound, the assignments and the while condition, then
\* the body.
clLoopStep ==
    /\ ~panicked
    /\ loop.active
    /\ LET l == loop
           c == l.clauses
           st0 == LoopState(l.local)
           st1 == IF l.hasSeq /\ l.iter < Len(l.seqItems) /\ c.seqVar # ""
                  THEN [st0 EXCEPT !.frames =
                           bindOrSetLocal(@, c.seqVar, l.seqItems[l.iter + 1])]
                  ELSE st0
           st2 == IF c.numericVar # ""
                  THEN [st1 EXCEPT !.frames =
                           bindOrSetLocal(@, c.numericVar, IntegerWithValue(l.nVal))]
                  ELSE st1
       IN  IF CapReached(l.iter) THEN LoopDone(l, st0)
           ELSE IF l.repeatCount >= 0 /\ l.iter >= l.repeatCount THEN LoopDone(l, st0)
           ELSE IF l.hasSeq /\ l.iter >= Len(l.seqItems) THEN LoopDone(l, st0)
           ELSE IF c.numericVar # "" /\ ~NumericOk(c.numericCmp, l.nVal, l.nEnd)
           THEN LoopDone(l, st1)
           ELSE \E a \in ForAssigns(c.forAssigns, st2) :
                   IF ~a.ok THEN LoopFailed(l, a)
                   ELSE \E w \in EvalOr(c.whileExpr, Intern("t"), a.st) :
                           IF ~w.ok THEN LoopFailed(l, w)
                           ELSE IF ~BooleanValue(w.val) THEN LoopDone(l, w.st)
                           ELSE LoopBody(l, w.st)
    /\ UNCHANGED <<matchVars, configs, panicked, kmVars, errorParents, scanner, tmVars, ldVars>>

\* The loops entered: tokens as the reader hands them to the form, at least
\* eight as its registration requires.
Word(name) == Var(name)
Number(n) == Const(IntegerWithValue(n))

WhileTrueSum ==
    <<Word("while"), Const(Intern("t")), Word("sum"),
      Number(1), Number(1), Number(1), Number(1), Number(1)>>

NumericLoops ==
    {<<Word("for"), Word("i"), Word(from), Number(start), Word(cmp), Number(end),
       Word("collect"), Word("i")>> :
     from \in {"from", "upfrom"}, start \in 0..1, cmp \in {"to", "below"}, end \in 0..MaxLoop}
        \cup {<<Word("for"), Word("i"), Word("from"), Number(start), Word("downto"),
                Number(end), Word("do"), Word("i")>> : start \in {0, MaxLoop}, end \in {1}}
        \cup {<<Word("for"), Word("i"), Word(from), Number(0), Word("by"), Number(2),
                Word("to"), Number(end), Word("do"), Word("i")>> :
              from \in {"from", "upfrom"}, end \in {MaxLoop}}
        \cup {<<Word("for"), Word("i"), Word("below"), Number(end), Word("collect"),
                Word("i"), Word("i"), Word("i")>> : end \in 0..MaxLoop}

OtherLoops ==
    {<<Word("repeat"), Number(n), Word("for"), Word("x"), Word("in"),
       Const(List(<<IntegerWithValue(1), IntegerWithValue(2), IntegerWithValue(3)>>)),
       Word("collect"), Word("x")>> : n \in 0..MaxLoop}
        \cup {<<Word("with"), Word("n"), Word("="), Number(1), Word("for"), Word("y"),
                Word("="), Word("n"), Word("repeat"), Number(2), Word("collect"),
                Word("y")>>,
              <<Word("for"), Word("i"), Word("from"), Number(0), Word("to"), Number(5),
                Word("while"), Plus(Word("i"), Word("i")), Word("do"), Word("i")>>,
              <<Word("for"), Word("i"), Word("from"), Number(0), Word("to"), Number(5),
                Word("while"), Word("missing"), Word("do"), Word("i")>>}

LoopForms == {WhileTrueSum} \cup NumericLoops \cup OtherLoops

NextLoop ==
    \/ \E toks \in LoopForms : clLoopEnter(toks)
    \/ clLoopStep

SpecLoop == Init /\ [][NextLoop]_vars

(***************************************************************************)
(* pcase forms.                                                            *)
(***************************************************************************)
QuotePattern(x) == List(<<Intern("quote"), x>>)
OrPattern(pats) == List(<<Intern("or")>> \o pats)

PcasePatterns ==
    {Intern("x"), Intern("_"), IntegerWithValue(1), QuotePattern(Intern("a")),
     OrPattern(<<QuotePattern(Intern("b")), Intern("x")>>),
     OrPattern(<<QuotePattern(List(<<Intern("a")>>)), QuotePattern(IntegerWithValue(1))>>)}

PcaseSubjects ==
    {Const(Intern("a")), Const(IntegerWithValue(1)), Const(List(<<Intern("a")>>)),
     Signal(Intern("my-err"), EmptyCons)}

\* The body of the i-th clause is the constant i followed by x.
PcaseClauseLists ==
    {[i \in 1..Len(pats) |->
         PcaseClause(pats[i], <<Const(IntegerWithValue(10 + i)), Var("x")>>)] :
     pats \in BodiesOf(PcasePatterns, MaxBody)}

PcaseForms == {Pcase(subject, clauses) : subject \in PcaseSubjects,
                                         clauses \in PcaseClauseLists}

NextPcase == \E form \in PcaseForms : Evaluate(form)

SpecPcase == Init /\ [][NextPcase]_vars

(***************************************************************************)
(* The preprocessor.  Source and output are sequences of bytes; every turn *)
(* of the loop of preprocessElisp is one step, and s[k + 1] is the byte    *)
(* the code calls s[k].                                                    *)
(***************************************************************************)
isOctal(b) == b >= 48 /\ b <= 55

isDelimiter(b) == b \in {0, 32, 9, 10, 13, 40, 41, 91, 93, 39, 96, 44, 34}

isDigit(b) == b >= 48 /\ b <= 57

isAlpha(b) == (b >= 97 /\ b <= 122) \/ (b >= 65 /\ b <= 90)

isSymbolChar(b) ==
    \/ isAlpha(b)
    \/ isDigit(b)
    \/ b \in {45, 95, 58, 47, 43, 42, 60, 62, 61, 63, 33, 36, 37, 38, 46, 126}

isSpace(b) == b \in {32, 9, 10, 13}

\* s[i:]
Suffix(s, i) == SubSeq(s, i + 1, Len(s))

\* strconv.Itoa and strconv.FormatInt(v, 10) of a number that is not negative.
RECURSIVE Itoa(_)
Itoa(n) == IF n < 10 THEN <<48 + n>> ELSE Itoa(n \div 10) \o <<48 + (n % 10)>>

\* The value of one digit of strconv.ParseInt, 36 for a byte that is none.
DigitValue(b) ==
    IF isDigit(b) THEN b - 48
    ELSE IF b >= 97 /\ b <= 122 THEN b - 97 + 10
    ELSE IF b >= 65 /\ b <= 90 THEN b - 65 + 10
    ELSE 36

\* strconv.ParseInt(digits, base, 64): a digit that the base does not have is
\* an error.
RECURSIVE ParseIntFrom(_, _, _)
ParseIntFrom(digits, base, v) ==
    IF digits = <<>> THEN [ok |-> TRUE, v |-> v]
    ELSE IF DigitValue(Head(digits)) >= base THEN [ok |-> FALSE, v |-> 0]
    ELSE ParseIntFrom(Tail(digits), base, v * base + DigitValue(Head(digits)))

ParseInt(digits, base) ==
    IF digits = <<>> THEN [ok |-> FALSE, v |-> 0] ELSE ParseIntFrom(digits, base, 0)

NoLiteral == [ok |-> FALSE, repl |-> <<>>, consumed |-> 0]
Literal(repl, consumed) == [ok |-> TRUE, repl |-> repl, consumed |-> consumed]

\* utf8DecodeRuneInString: the first rune and the length of its encoding;
\* utf8.RuneError is encoded in three bytes.
utf8DecodeRuneInString(s) ==
    IF s = <<>> THEN [r |-> 0, width |-> 0]
    ELSE LET r == DecodeString(s)[1]
         IN  [r |-> r, width |-> IF r < 128 THEN 1 ELSE IF r < 2048 THEN 2 ELSE 3]

parseCharLiteral_EscapeAsLetter(s) ==
    IF Len(s) < 2 \/ s[1] # 63 THEN NoLiteral
    ELSE IF Len(s) >= 3 /\ s[2] = 92 THEN Literal(Itoa(s[3]), 3)
    ELSE Literal(Itoa(s[2]), 2)

parseCharLiteral(s) ==
    IF Len(s) < 2 \/ s[1] # 63 THEN NoLiteral
    ELSE IF Len(s) >= 3 /\ s[2] = 92
    THEN IF Len(s) >= 5 /\ isOctal(s[3]) /\ isOctal(s[4]) /\ isOctal(s[5])
         THEN Literal(Itoa(ParseInt(SubSeq(s, 3, 5), 8).v), 5)
         ELSE IF s[3] = 110 THEN Literal(<<49, 48>>, 3)
         ELSE IF s[3] = 116 THEN Literal(<<57>>, 3)
         ELSE IF s[3] = 114 THEN Literal(<<49, 51>>, 3)
         ELSE IF s[3] = 102 THEN Literal(<<49, 50>>, 3)
         ELSE IF s[3] = 98 THEN Literal(<<56>>, 3)
         ELSE IF s[3] = 92 THEN Literal(Itoa(92), 3)
         ELSE IF s[3] = 32 THEN Literal(<<51, 50>>, 3)
         ELSE Literal(Itoa(s[3]), 3)
    ELSE LET d == IF s[2] >= 128 THEN utf8DecodeRuneInString(Tail(s))
                  ELSE [r |-> s[2], width |-> 1]
         IN  IF d.width <= 0 THEN NoLiteral ELSE Literal(Itoa(d.r), 1 + d.width)

\* The digits of a radix literal end at index j: decimal digits in every
\* base, letters a-f and A-F in base 16.
RECURSIVE RadixDigitsEnd(_, _, _)
RadixDigitsEnd(s, base, j) ==
    IF /\ j < Len(s)
       /\ \/ isDigit(s[j + 1])
          \/ base = 16 /\ ((s[j + 1] >= 97 /\ s[j + 1] <= 102)
                           \/ (s[j + 1] >= 65 /\ s[j + 1] <= 70))
    THEN RadixDigitsEnd(s, base, j + 1)
    ELSE j

parseRadixLiteral(s) ==
    IF Len(s) < 3 \/ s[1] # 35 THEN NoLiteral
    ELSE LET base == IF s[2] \in {111, 79} THEN 8
                     ELSE IF s[2] \in {120, 88} THEN 16
                     ELSE IF s[2] \in {98, 66} THEN 2
                     ELSE 0
             j == RadixDigitsEnd(s, base, 2)
             v == ParseInt(SubSeq(s, 3, j), base)
         IN  IF base = 0 \/ j = 2 \/ ~v.ok THEN NoLiteral
             ELSE Literal(Itoa(v.v), j)

\* readToken: the length of the token s starts with.
RECURSIVE readToken(_, _)
readToken(s, j) == IF j < Len(s) /\ isSymbolChar(s[j + 1]) THEN readToken(s, j + 1) ELSE j

RECURSIVE SkipSpace(_, _)
SkipSpace(s, j) == IF j < Len(s) /\ isSpace(s[j + 1]) THEN SkipSpace(s, j + 1) ELSE j

readTokenAfterParen(s) ==
    IF Len(s) < 2 \/ s[1] # 40 THEN [tok |-> <<>>, n |-> 0]
    ELSE LET i == SkipSpace(s, 1)
             n == readToken(Suffix(s, i), 0)
         IN  IF n = 0 THEN [tok |-> <<>>, n |-> 0]
             ELSE [tok |-> SubSeq(s, i + 1, i + n), n |-> i + n]

tokenLooksLikeLeadingDigitSymbol(src, pos) ==
    LET n == readToken(Suffix(src, pos), 0)
    IN  /\ ~(pos > 0 /\ ~isDelimiter(src[pos]))
        /\ n # 0
        /\ ~(pos + n < Len(src) /\ ~isDelimiter(src[pos + n + 1]))
        /\ \E k \in (pos + 1)..(pos + n) : isAlpha(src[k])

\* "n-" before the token
normalizeLeadingDigitSymbol(tok) == IF tok = <<>> THEN tok ELSE <<110, 45>> \o tok

\* The words the preprocessor compares with and writes.
PointWord == <<112, 111, 105, 110, 116>>
DunModeWord == <<100, 117, 110, 45, 109, 111, 100, 101>>
ElPointText == <<40, 101, 108, 45>> \o PointWord
CallDunModeText == <<40, 99, 97, 108, 108, 45, 102, 110, 32, 39>> \o DunModeWord
VectorLiteralText ==
    <<40, 118, 101, 99, 116, 111, 114, 45, 108, 105, 116, 101, 114, 97, 108, 32>>
SuccText == <<115, 117, 99, 99>>
PredText == <<112, 114, 101, 100>>

\* n bytes of the source are consumed and bytes are written by a rule.
Emit(sc, bytes, n, rule) ==
    [sc EXCEPT !.out = @ \o bytes, !.i = @ + n, !.rule = rule,
               !.from = sc.i, !.wrote = bytes]

\* return "", errors.New(msg)
Fail(sc, msg) ==
    [sc EXCEPT !.status = "error", !.err = msg, !.out = <<>>, !.rule = "fail",
               !.from = sc.i, !.wrote = <<>>]

\* One byte inside a comment.
InCommentStep(sc, ch) ==
    [Emit(sc, <<ch>>, 1, "comment") EXCEPT !.inComment = (ch # 10)]

InStringStep_QuoteEnds(sc, ch) ==
    [Emit(sc, <<ch>>, 1, "string") EXCEPT
        !.escaped = ~sc.escaped /\ ch = 92,
        !.inString = (ch # 34)]

\* One byte inside a string.
InStringStep(sc, ch) ==
    [Emit(sc, <<ch>>, 1, "string") EXCEPT
        !.escaped = ~sc.escaped /\ ch = 92,
        !.inString = sc.escaped \/ ch # 34]

OpenVector(sc) ==
    [Emit(sc, VectorLiteralText, 1, "[") EXCEPT !.vectorDepth = @ + 1, !.opened = @ + 1]

CloseVector(sc) ==
    IF sc.vectorDepth = 0 THEN Fail(sc, "unmatched ] in elisp source")
    ELSE [Emit(sc, <<41>>, 1, "]") EXCEPT !.vectorDepth = @ - 1, !.closed = @ + 1]

\* The end of the source.
Finish(sc) ==
    IF sc.inString THEN Fail(sc, "unterminated string literal")
    ELSE IF sc.vectorDepth # 0 THEN Fail(sc, "unmatched [ in elisp source")
    ELSE [sc EXCEPT !.status = "ok", !.rule = "end", !.from = sc.i, !.wrote = <<>>]

\* One turn of the loop of preprocessElisp, or its end.
ScanStep(sc) ==
    LET src == sc.src
        i == sc.i
        len == Len(src)
        ch == src[i + 1]
        has(k) == i + k < len
        at(k) == src[i + k + 1]
        radix == parseRadixLiteral(Suffix(src, i))
        char == parseCharLiteral(Suffix(src, i))
        call == readTokenAfterParen(Suffix(src, i))
        j == SkipSpace(src, i + call.n)
        prev == IF i > 0 THEN src[i] ELSE 0
        next == IF has(2) THEN at(2) ELSE 0
        n == readToken(Suffix(src, i), 0)
    IN  IF i >= len THEN Finish(sc)
        ELSE IF sc.inComment THEN InCommentStep(sc, ch)
        ELSE IF sc.inString THEN InStringStep(sc, ch)
        ELSE IF ch = 59 THEN [Emit(sc, <<ch>>, 1, ";") EXCEPT !.inComment = TRUE]
        ELSE IF ch = 34 THEN [Emit(sc, <<ch>>, 1, "quote") EXCEPT !.inString = TRUE]
        ELSE IF ch = 35 /\ has(1) /\ at(1) = 39 THEN Emit(sc, <<39>>, 2, "#'")
        ELSE IF ch = 35 /\ radix.ok THEN Emit(sc, radix.repl, radix.consumed, "radix")
        ELSE IF ch = 92 /\ has(1) /\ at(1) \in {63, 46, 44, 33}
        THEN Emit(sc, <<34, at(1), 34>>, 2, "escaped")
        ELSE IF /\ ch = 49 /\ has(1) /\ at(1) \in {43, 45}
                /\ isDelimiter(prev) /\ isDelimiter(next)
        THEN Emit(sc, IF at(1) = 43 THEN SuccText ELSE PredText, 2, "1+")
        ELSE IF ch = 63 /\ char.ok THEN Emit(sc, char.repl, char.consumed, "char")
        ELSE IF ch = 91 THEN OpenVector(sc)
        ELSE IF /\ ch = 40 /\ call.tok \in {PointWord, DunModeWord}
                /\ j < len /\ src[j + 1] = 41
        THEN Emit(sc, IF call.tok = PointWord THEN ElPointText ELSE CallDunModeText,
                  call.n, "call")
        ELSE IF ch = 93 THEN CloseVector(sc)
        ELSE IF isDigit(ch) /\ tokenLooksLikeLeadingDigitSymbol(src, i)
        THEN Emit(sc, normalizeLeadingDigitSymbol(SubSeq(src, i + 1, i + n)), n, "digit")
        ELSE Emit(sc, <<ch>>, 1, "copy")

\* preprocessElisp(src) from its first byte.
StartScan(src) == [NoScan EXCEPT !.status = "scan", !.src = src]

\* preprocessElisp(src) to its end.
RECURSIVE RunScan(_)
RunScan(sc) == IF sc.status # "scan" THEN sc ELSE RunScan(ScanStep(sc))

preprocessElisp(src) == RunScan(StartScan(src))

\* The source of a file is handed to the preprocessor.
preprocessEnter(src) ==
    /\ scanner.status = "idle"
    /\ scanner' = StartScan(src)
    /\ UNCHANGED <<docVars, matchVars, panicked, last, kmVars, env, errorParents,
                   funcByName, loop, tmVars, ldVars>>

preprocessStep ==
    /\ scanner.status = "scan"
    /\ scanner' = ScanStep(scanner)
    /\ UNCHANGED <<docVars, matchVars, panicked, last, kmVars, env, errorParents,
                   funcByName, loop, tmVars, ldVars>>

\* preprocessElisp has returned: its locals are gone.
preprocessReturn ==
    /\ scanner.status \in {"ok", "error"}
    /\ scanner' = NoScan
    /\ UNCHANGED <<docVars, matchVars, panicked, last, kmVars, env, errorParents,
                   funcByName, loop, tmVars, ldVars>>
\* Sources whose rewrites are outside strings and comments.
DefaultSources ==
    {<<35, 39, 97>>,
     <<35, 120, 49, 70>>,
     <<35, 111, 49, 55>>,
     <<35, 98, 49, 48, 49>>,
     <<35, 88, 102, 70>>,
     <<35, 111, 57>>,
     <<35, 120, 90>>,
     <<63, 97>>,
     <<63, 92, 110>>,
     <<63, 92, 116>>,
     <<63, 92, 114>>,
     <<63, 92, 102>>,
     <<63, 92, 98>>,
     <<63, 92, 92>>,
     <<63, 92, 49, 48, 49>>,
     <<63, 92, 55, 55, 55>>,
     <<63, 195, 169>>,
     <<92, 63>>,
     <<92, 46>>,
     <<32, 49, 43, 32>>,
     <<40, 49, 45, 32, 120, 41>>,
     <<40, 112, 111, 105, 110, 116, 41>>,
     <<40, 100, 117, 110, 45, 109, 111, 100, 101, 32, 41>>,
     <<40, 112, 111, 105, 110, 116, 32, 49, 41>>,
     <<49, 97, 98, 99>>,
     <<49, 50>>,
     <<91, 49, 32, 91, 50, 93, 32, 51, 93>>,
     <<91, 63, 93, 32, 93>>,
     <<91, 63, 92, 93, 32, 93>>}

\* Sources that hold the same text in a string.
StringSources ==
    {<<34, 35, 39, 97, 34>>,
     <<34, 35, 120, 49, 70, 34>>,
     <<34, 63, 97, 34>>,
     <<34, 92, 63, 34>>,
     <<34, 32, 49, 43, 32, 34>>,
     <<34, 40, 112, 111, 105, 110, 116, 41, 34>>,
     <<34, 49, 97, 98, 99, 34>>,
     <<34, 91, 49, 93, 34>>,
     <<34, 97, 92, 34, 93, 98, 34>>,
     <<34, 97, 92, 92, 34, 93>>,
     <<34, 97, 59, 98, 34>>,
     <<91, 34, 93, 34, 93>>}

\* Sources that hold the same text in a comment.
CommentSources ==
    {<<59, 35, 39, 97, 10>>,
     <<59, 35, 120, 49, 70, 10>>,
     <<59, 63, 97, 10>>,
     <<59, 92, 63, 10>>,
     <<59, 32, 49, 43, 32, 10>>,
     <<59, 40, 112, 111, 105, 110, 116, 41, 10>>,
     <<59, 49, 97, 98, 99, 10>>,
     <<91, 59, 93, 10, 93>>,
     <<59, 34, 10, 91, 49, 93>>,
     <<59, 91, 49>>}

\* Sources with a byte that is not UTF-8 after the question mark.
StraySources ==
    {<<91, 63, 255, 93>>,
     <<63, 255, 93, 32>>,
     <<91, 63, 255, 93, 32, 32, 93>>}

\* The bytes of the short sources: " \ ; newline [ ] ? and a byte that is not
\* UTF-8.
SrcChars == {34, 92, 59, 10, 91, 93, 63, 255}

Sources ==
    BodiesOf(SrcChars, MaxSrc) \cup DefaultSources \cup StringSources
        \cup CommentSources \cup StraySources

NextPre ==
    \/ \E src \in Sources : preprocessEnter(src)
    \/ preprocessStep
    \/ preprocessReturn

SpecPre == Init /\ [][NextPre]_vars

(***************************************************************************)
(* Names without a binding: loading a file, ignore-errors and call-fn.     *)
(***************************************************************************)
\* The names a failure of the library can name.
FunctionNames == {"f", "gone"}

\* missingFunctionFromError: the name in "function or macro expected for
\* NAME.", if the message has that form.
missingFunctionFromError(e) ==
    LET hits == {n \in FunctionNames :
                    ErrorText(e) = <<"function or macro expected for " \o n \o ".">>}
    IN  IF hits = {} THEN [ok |-> FALSE, name |-> ""]
        ELSE [ok |-> TRUE, name |-> CHOOSE n \in hits : TRUE]

\* loadElispFile after the preprocessor: the forms of the file are evaluated
\* in rt.env up to the first failure, and a failure that names a missing
\* function is returned with that name.
loadElispFile(forms) ==
    /\ ~panicked
    /\ \E o \in evalLetBody(forms, EvalState, EmptyCons) :
          LET m == missingFunctionFromError(o.err)
          IN  /\ Fits(o.st.d)
              /\ SetDoc(o.st.d)
              /\ env' = o.st.frames[1]
              /\ funcByName' = o.st.funcs
              /\ last' = [op |-> "load", ret |-> 0, str |-> <<>>, matched |-> FALSE,
                          form |-> forms, ok |-> o.ok, val |-> o.val,
                          err |-> IF o.ok \/ ~m.ok THEN o.err
                                  ELSE fmtErrorf("needed elisp function is not implemented: "
                                                 \o m.name),
                          trace |-> o.st.trace]
    /\ UNCHANGED <<matchVars, configs, panicked, kmVars, errorParents, loop, scanner, tmVars, ldVars>>

\* f is defined by the program, gone is not defined anywhere.
GoneCall == Call("gone", <<>>)
GoneCallFn == CallFn(<<Const(Intern("gone"))>>)
MissingLeaves ==
    {Const(IntegerWithValue(1)), GoneCall, GoneCallFn, CallFn(<<Const(Intern("f"))>>)}
MissingForms ==
    MissingLeaves \cup {IgnoreErrors(b) : b \in BodiesOf(MissingLeaves, 2)}
        \cup {Defun("f", <<>>, <<Const(IntegerWithValue(2))>>)}
FileForms ==
    MissingLeaves \cup {IgnoreErrors(<<GoneCall>>), IgnoreErrors(<<GoneCallFn>>),
                        Defun("f", <<>>, <<Const(IntegerWithValue(2))>>)}

NextMissing ==
    \/ \E form \in MissingForms : Evaluate(form)
    \/ \E forms \in BodiesOf(FileForms, 2) : loadElispFile(forms)

SpecMissing == Init /\ [][NextMissing]_vars

(***************************************************************************)
(* Timers.  A tick visits the timers of rt.timers one by one, in any order; *)
(* times are whole seconds.  What a callback does is the program's: the    *)
(* model draws how each of its two applications ends.                      *)
(***************************************************************************)
\* How an application of a callback ends: without failure, with the signal
\* quit or life-extinct, with another signal, with a failure whose text
\* holds "signal: quit", or with another failure.
Outcomes == {"ok", "quit", "life-extinct", "signal", "benign", "error"}

\* What a timer calls: a function, a symbol without a function value, or a
\* datum that is neither a symbol nor a function.
Callbacks == {"function", "unbound", "datum"}

\* err.Error() of the failure of an outcome.
OutcomeText(o) ==
    CASE o = "quit" -> "signal: quit"
      [] o = "life-extinct" -> "signal: life-extinct"
      [] o = "signal" -> "signal: error"
      [] o = "benign" -> "wrapped signal: quit"
      [] o = "unsupported" -> "unsupported timer callback"
      [] o = "non-function" -> "timer callback resolved to non-function"
      [] OTHER -> "failed"

\* invokeTimerCallback: the callback is applied to the current buffer and,
\* if that fails, to no argument; "ok" stands for nil.
invokeTimerCallback(cb, withArg, noArg) ==
    IF cb = "datum" THEN "unsupported"
    ELSE IF cb = "unbound" THEN "non-function"
    ELSE IF withArg = "ok" THEN "ok"
    ELSE noArg

\* strings.Contains(msg, "signal: life-extinct") || strings.Contains(msg, "signal: quit")
isBenignTimerSignal(err) == err \in {"quit", "life-extinct", "benign"}

AfterFailure_BenignContinues(t, err) ==
    IF isBenignTimerSignal(err) THEN t ELSE [t EXCEPT !.active = FALSE]

\* The timer after its callback failed: inactive in every branch.
AfterFailure(t, err) == [t EXCEPT !.active = FALSE]

\* The failure is written to rt.messages unless it is a quit or life-extinct
\* signal or benign.
AfterFailureMessages(err) ==
    IF err \in {"quit", "life-extinct"} \/ isBenignTimerSignal(err) THEN messages
    ELSE Append(messages, "timer error: " \o OutcomeText(err))

\* The timer after its callback returned: a timer without a period is done,
\* another is scheduled again.
AfterSuccess(t, now) ==
    IF t.period <= 0 THEN [t EXCEPT !.active = FALSE]
    ELSE [t EXCEPT !.nextFire = now + t.period]

\* (run-at-time delay repeat callback)
runAtTimeImpl(delay, repeat, callback) ==
    /\ ~tick.running
    /\ timerSeq < MaxTimers
    /\ timerSeq' = timerSeq + 1
    /\ timers' = MapPut(timers, timerSeq + 1,
                        [period |-> IF repeat <= 0 THEN -1 ELSE repeat,
                         callback |-> callback, active |-> TRUE,
                         nextFire |-> tick.now + (IF delay < 0 THEN 0 ELSE delay)])
    /\ UNCHANGED <<docVars, matchVars, panicked, last, kmVars, env, errorParents,
                   funcByName, loop, scanner, ldVars, tick, messages>>

\* t.active = false in cancelTimerImpl
Cancelled(t) == [t EXCEPT !.active = FALSE]

\* The applications of the callback in one call of invokeTimerCallback.
Applications(cb, withArg) ==
    IF cb # "function" THEN 0 ELSE IF withArg = "ok" THEN 1 ELSE 2

\* (cancel-timer timer)
cancelTimerImpl(id) ==
    /\ ~tick.running
    /\ id \in DOMAIN timers
    /\ timers' = [timers EXCEPT ![id] = Cancelled(@)]
    /\ UNCHANGED <<docVars, matchVars, panicked, last, kmVars, env, errorParents,
                   funcByName, loop, scanner, ldVars, timerSeq, tick, messages>>

\* tickTimers is entered at time now.
tickStart(now) ==
    /\ ~tick.running
    /\ now > tick.now
    /\ tick' = [tick EXCEPT !.running = TRUE, !.now = now, !.pending = DOMAIN timers,
                            !.failed = {}]
    /\ UNCHANGED <<docVars, matchVars, panicked, last, kmVars, env, errorParents,
                   funcByName, loop, scanner, ldVars, timers, timerSeq, messages>>

\* One turn of the loop of tickTimers, for the timer id.  No timer made by
\* run-at-time has the zero time as nextFire.  cancels tells whether the body
\* of the callback applies cancel-timer to its own timer.
tickVisit(id, withArg, noArg, cancels) ==
    LET t == timers[id]
        due == t.active /\ tick.now >= t.nextFire
        err == invokeTimerCallback(t.callback, withArg, noArg)
        invoked == due /\ t.callback = "function"
        t1 == IF invoked /\ cancels THEN Cancelled(t) ELSE t
    IN  /\ tick.running
        /\ id \in tick.pending
        /\ tick' = [tick EXCEPT !.pending = @ \ {id},
                                !.failed = IF due /\ err # "ok" THEN @ \cup {id} ELSE @,
                                !.visit = [id |-> id,
                                           invoked |-> invoked,
                                           failed |-> due /\ err # "ok",
                                           applied |-> IF due
                                                       THEN Applications(t.callback, withArg)
                                                       ELSE 0,
                                           cancelled |-> invoked /\ cancels]]
        /\ IF ~due THEN UNCHANGED <<timers, messages>>
           ELSE IF err # "ok"
           THEN /\ timers' = [timers EXCEPT ![id] = AfterFailure(t1, err)]
                /\ messages' = AfterFailureMessages(err)
           ELSE /\ timers' = [timers EXCEPT ![id] = AfterSuccess(t1, tick.now)]
                /\ UNCHANGED messages
        /\ UNCHANGED <<docVars, matchVars, panicked, last, kmVars, env, errorParents,
                       funcByName, loop, scanner, ldVars, timerSeq>>

\* tickTimers returns when every timer was visited.
tickReturn ==
    /\ tick.running
    /\ tick.pending = {}
    /\ tick' = [tick EXCEPT !.running = FALSE, !.visit = NoTick.visit, !.failed = {}]
    /\ UNCHANGED <<docVars, matchVars, panicked, last, kmVars, env, errorParents,
                   funcByName, loop, scanner, ldVars, timers, timerSeq, messages>>

TickStep ==
    \/ \E id \in DOMAIN timers, withArg \in {"ok", "error"}, noArg \in Outcomes :
          /\ withArg = "ok" => noArg = "ok"
          /\ tickVisit(id, withArg, noArg, FALSE)
    \/ tickReturn

NextTimers ==
    \/ \E delay \in {1}, repeat \in {0, 1}, cb \in Callbacks :
          runAtTimeImpl(delay, repeat, cb)
    \/ \E id \in DOMAIN timers : cancelTimerImpl(id)
    \/ \E now \in 1..MaxTime : tickStart(now)
    \/ TickStep

SpecTimers == Init /\ [][NextTimers]_vars

\* Timers whose callbacks may cancel their own timer.
CallbackStep ==
    \/ \E id \in DOMAIN timers, withArg \in {"ok", "error"}, noArg \in {"ok", "error"},
          cancels \in BOOLEAN :
          /\ withArg = "ok" => noArg = "ok"
          /\ tickVisit(id, withArg, noArg, cancels)
    \/ tickReturn

NextCallbacks ==
    \/ \E delay \in {1}, repeat \in {0, 1}, cb \in {"function", "unbound"} :
          runAtTimeImpl(delay, repeat, cb)
    \/ \E id \in DOMAIN timers : cancelTimerImpl(id)
    \/ \E now \in 1..MaxTime : tickStart(now)
    \/ CallbackStep

SpecCallbacks == Init /\ [][NextCallbacks]_vars

(***************************************************************************)
(* The walk of conditionNameMatches up the parents, one turn of its loop   *)
(* per step.                                                               *)
(***************************************************************************)
\* rtGlobal.errorParents[c]: the empty string for a name without an entry.
ParentOf(c) == IF c \in DOMAIN errorParents THEN errorParents[c] ELSE ""

Seen_Never(c, seen) == FALSE

\* seen[c]
Seen(c, seen) == c \in seen

\* return spec == "error" && errCond == "error"
WalkFallback(w) ==
    [w EXCEPT !.status = "done", !.result = (w.spec = "error" /\ w.errCond = "error")]

\* conditionNameMatches(spec, errCond) is entered.
walkEnter(spec, errCond) ==
    /\ walk.status = "idle"
    /\ walk' = IF spec = "t"
               THEN [NoWalk EXCEPT !.status = "done", !.spec = spec,
                                   !.errCond = errCond, !.result = TRUE]
               ELSE [NoWalk EXCEPT !.status = "walk", !.spec = spec,
                                   !.errCond = errCond, !.c = errCond]
    /\ UNCHANGED <<docVars, matchVars, panicked, last, kmVars, env, errorParents,
                   funcByName, loop, scanner, tmVars, providedFeatures,
                   loadingFeatures, loader>>

\* One turn of the loop, or its end.
walkStep ==
    /\ walk.status = "walk"
    /\ walk' = IF walk.c = "" \/ Seen(walk.c, walk.seen) THEN WalkFallback(walk)
               ELSE LET w == [walk EXCEPT !.seen = @ \cup {walk.c},
                                          !.visited = Append(@, walk.c)]
                    IN  IF walk.c = walk.spec
                        THEN [w EXCEPT !.status = "done", !.result = TRUE]
                        ELSE IF walk.c = "error" THEN WalkFallback(w)
                        ELSE [w EXCEPT !.c = ParentOf(walk.c)]
    /\ UNCHANGED <<docVars, matchVars, panicked, last, kmVars, env, errorParents,
                   funcByName, loop, scanner, tmVars, providedFeatures,
                   loadingFeatures, loader>>

\* conditionNameMatches has returned.
walkReturn ==
    /\ walk.status = "done"
    /\ walk' = NoWalk
    /\ UNCHANGED <<docVars, matchVars, panicked, last, kmVars, env, errorParents,
                   funcByName, loop, scanner, tmVars, providedFeatures,
                   loadingFeatures, loader>>

\* The names of the registries: any of them may be given any of them as
\* parent, itself included.
RegistryNames == {"my-err", "sub-err", "error"}

NextWalk ==
    \/ \E name \in RegistryNames, hasParent \in BOOLEAN, parent \in RegistryNames :
          walk.status = "idle" /\ defineErrorImpl(name, hasParent, parent)
    \/ \E spec \in RegistryNames \cup {"t", "quit"}, errCond \in RegistryNames \cup {"quit"} :
          walkEnter(spec, errCond)
    \/ walkStep
    \/ walkReturn

SpecWalk == Init /\ [][NextWalk]_vars

(***************************************************************************)
(* require, provide and load.  The files of the load path are fixed; a     *)
(* file is the sequence of its forms, and the requires and loads under way *)
(* are a stack of files with the forms still to evaluate.                  *)
(***************************************************************************)
Require(name, noError) == [op |-> "require", name |-> name, noError |-> noError]
Provide(name) == [op |-> "provide", name |-> name]
Load(name) == [op |-> "load", name |-> name]
Fails == [op |-> "fail", name |-> ""]

\* The files of the load path: a and b require each other, s requires
\* itself, bad fails after a require, p provides another feature and loads b,
\* n requires a feature that has no file, c requires d and d loads c.
LoadPath ==
    [a |-> <<Require("a", FALSE), Require("b", FALSE), Provide("a")>>,
     b |-> <<Require("a", FALSE), Provide("b")>>,
     s |-> <<Require("s", FALSE), Require("cl-lib", FALSE)>>,
     bad |-> <<Require("b", FALSE), Fails, Provide("bad")>>,
     p |-> <<Provide("q"), Load("b"), Require("gone", TRUE)>>,
     n |-> <<Require("gone", FALSE), Provide("n")>>,
     c |-> <<Require("d", FALSE)>>,
     d |-> <<Load("c"), Provide("d")>>]

\* resolveFeatureFile
resolveFeatureFile(name) == name \in DOMAIN LoadPath

Frame(kind, name, noError) ==
    [kind |-> kind, name |-> name, noError |-> noError, forms |-> LoadPath[name]]

\* The state of the feature tables and of the stack during a step.
LoadState == [provided |-> providedFeatures, loading |-> loadingFeatures, ld |-> loader]

\* The end of requireImpl for a feature whose file is missing or failed.
Unavailable(ls, name, noError) ==
    IF noError THEN [ls EXCEPT !.ld.ret = "ok"]
    ELSE IF ls.ld.shim = "on"
    THEN [ls EXCEPT !.provided = @ \cup {name}, !.ld.ret = "ok"]
    ELSE [ls EXCEPT !.ld.ret = "error"]

Guarded_NotLoading(ls, name) == name \in ls.provided

\* requireImpl returns at once for a feature provided or being loaded.
Guarded(ls, name) == name \in ls.provided \/ name \in ls.loading

\* requireImpl up to the load of the file.
RequireCall(ls, name, noError) ==
    IF Guarded(ls, name) THEN [ls EXCEPT !.ld.ret = "ok"]
    ELSE IF resolveFeatureFile(name)
    THEN [ls EXCEPT !.loading = @ \cup {name},
                    !.ld.stack = <<Frame("require", name, noError)>> \o @,
                    !.ld.loads = Append(@, name),
                    !.ld.ret = "none"]
    ELSE Unavailable(ls, name, noError)

\* loadImpl up to the load of the file; a file that is missing fails to load.
LoadCall(ls, name) ==
    IF resolveFeatureFile(name)
    THEN [ls EXCEPT !.ld.stack = <<Frame("load", name, FALSE)>> \o @,
                    !.ld.loads = Append(@, name),
                    !.ld.ret = "none"]
    ELSE [ls EXCEPT !.ld.ret = "error"]

\* The file on top of the stack was evaluated to its end.
FileLoaded(ls) ==
    LET f == Head(ls.ld.stack)
        popped == [ls EXCEPT !.ld.stack = Tail(@), !.ld.ret = "ok"]
    IN  IF f.kind = "require"
        THEN [popped EXCEPT !.loading = @ \ {f.name}, !.provided = @ \cup {f.name}]
        ELSE popped

\* A form of the file on top of the stack failed.
FileFailed(ls) ==
    LET f == Head(ls.ld.stack)
        popped == [ls EXCEPT !.ld.stack = Tail(@)]
    IN  IF f.kind = "require"
        THEN Unavailable([popped EXCEPT !.loading = @ \ {f.name}], f.name, f.noError)
        ELSE [popped EXCEPT !.ld.ret = "error"]

\* The next form of the file on top of the stack is evaluated.
FormStep(ls) ==
    LET f == Head(ls.ld.stack)
        form == Head(f.forms)
    IN  IF f.forms = <<>> THEN FileLoaded(ls)
        ELSE IF form.op = "provide"
        THEN [ls EXCEPT !.provided = @ \cup {form.name},
                        !.ld.stack[1].forms = Tail(@)]
        ELSE IF form.op = "fail" THEN FileFailed(ls)
        ELSE IF form.op = "require" THEN RequireCall(ls, form.name, form.noError)
        ELSE LoadCall(ls, form.name)

\* One step of the requires and loads under way: a call has returned to the
\* file that made it, or to the program, or the next form is evaluated.
LoadStep(ls) ==
    IF ls.ld.ret # "none"
    THEN IF ls.ld.stack = <<>> THEN [ls EXCEPT !.ld.status = ls.ld.ret, !.ld.ret = "none"]
         ELSE IF ls.ld.ret = "ok"
         THEN [ls EXCEPT !.ld.stack[1].forms = Tail(@), !.ld.ret = "none"]
         ELSE FileFailed([ls EXCEPT !.ld.ret = "none"])
    ELSE FormStep(ls)

SetLoadState(ls) ==
    /\ providedFeatures' = ls.provided
    /\ loadingFeatures' = ls.loading
    /\ loader' = ls.ld
    /\ UNCHANGED <<docVars, matchVars, panicked, last, kmVars, env, errorParents,
                   funcByName, loop, scanner, tmVars, walk>>

\* The runtime is constructed: ELRUN_REQUIRE_SHIM is read.
readRequireShim(on) ==
    /\ loader.shim = "unset"
    /\ SetLoadState([LoadState EXCEPT !.ld.shim = IF on THEN "on" ELSE "off"])

\* The program evaluates (require 'name nil noError).
requireImpl(name, noError) ==
    /\ loader.shim # "unset"
    /\ loader.status = "idle"
    /\ SetLoadState(RequireCall([LoadState EXCEPT !.ld.status = "run", !.ld.loads = <<>>],
                                name, noError))

\* The program evaluates (load "name").
loadImpl(name) ==
    /\ loader.shim # "unset"
    /\ loader.status = "idle"
    /\ SetLoadState(LoadCall([LoadState EXCEPT !.ld.status = "run", !.ld.loads = <<>>],
                             name))

\* The program evaluates (provide 'name).
provideImpl(name) ==
    /\ loader.shim # "unset"
    /\ loader.status = "idle"
    /\ SetLoadState([LoadState EXCEPT !.provided = @ \cup {name}])

loadStep ==
    /\ loader.status = "run"
    /\ SetLoadState(LoadStep(LoadState))

\* The require or load of the program has returned.
loadReturn ==
    /\ loader.status \in {"ok", "error"}
    /\ SetLoadState([LoadState EXCEPT !.ld.status = "idle"])

RequiredNames == {"a", "s", "bad", "p", "n", "c", "gone", "cl-lib"}

NextRequire ==
    \/ \E on \in BOOLEAN : readRequireShim(on)
    \/ \E name \in RequiredNames, noError \in BOOLEAN : requireImpl(name, noError)
    \/ \E name \in {"p", "bad", "gone"} : loadImpl(name)
    \/ \E name \in {"z"} : provideImpl(name)
    \/ loadStep
    \/ loadReturn

SpecRequire == Init /\ [][NextRequire]_vars /\ WF_vars(loadStep)

(***************************************************************************)
(* Hooks and the list of buffers.                                          *)
(***************************************************************************)
\* append(b.hooks[hook], fn)
AddHook(b, hook, fn) ==
    [b EXCEPT !.hooks = MapPut(@, hook,
                               Append(IF hook \in DOMAIN @ THEN @[hook] ELSE <<>>, fn))]

\* The functions on the hook of the buffer with index b.
HookLen(d, b, hook) ==
    IF hook \in DOMAIN d.heap[b].hooks THEN Len(d.heap[b].hooks[hook]) ELSE 0

\* &elBuffer{name: "*global*", hooks: make(...)}: no object is made for it.
GlobalHookBuffer ==
    [name |-> "*global*", object |-> FALSE, localMap |-> Nil, hooks |-> <<>>,
     text |-> <<>>, point |-> 0]

addHookImpl(hook, fn, isLocal) ==
    /\ ~panicked
    /\ IF isLocal
       THEN \E c \in currentBuffer(Doc) :
               /\ HookLen(c.d, c.b, hook) < MaxHooks
               /\ SetDoc([c.d EXCEPT !.heap[c.b] = AddHook(@, hook, fn)])
       ELSE LET d == IF "*global*" \in DOMAIN buffers THEN Doc
                     ELSE [Doc EXCEPT !.heap = Append(@, GlobalHookBuffer),
                                      !.buffers = MapPut(@, "*global*", Len(heap) + 1)]
                b == d.buffers["*global*"]
            IN  /\ HookLen(d, b, hook) < MaxHooks
                /\ Fits(d)
                /\ SetDoc([d EXCEPT !.heap[b] = AddHook(@, hook, fn)])
    /\ Returned("add-hook", 0)
    /\ UNCHANGED <<matchVars, configs, panicked, kmVars, evVars>>

\* The handle of a buffer: its object, Nil when none was made.
Handle(d, b) == IF d.heap[b].object THEN b ELSE Nil

\* buffer-list: the handles of the entries of the table.  The list is in the
\* order of the names; the model keeps the name with each handle.
bufferListImpl ==
    /\ ~panicked
    /\ last' = [op |-> "buffer-list", ret |-> 0, str |-> <<>>, matched |-> FALSE,
                handles |-> {[name |-> n, object |-> Handle(Doc, buffers[n])] :
                             n \in DOMAIN buffers}]
    /\ UNCHANGED <<docVars, matchVars, panicked, kmVars, evVars>>

HookNames == {"kill-buffer-hook"}

HookFunctions == {"f"}

NextHooks ==
    \/ \E arg \in BufferArgs : switchToBufferImpl(arg)
    \/ \E hasArg \in BOOLEAN, arg \in BufferArgs : killBufferImpl(hasArg, arg)
    \/ \E hook \in HookNames, fn \in HookFunctions, isLocal \in BOOLEAN :
          addHookImpl(hook, fn, isLocal)
    \/ bufferListImpl

SpecHooks == Init /\ [][NextHooks]_vars

(***************************************************************************)
(* Properties.                                                             *)
(***************************************************************************)
\* The buffer of the selected window.
Current == windows[selectedWindowID].buffer

Registered(b) == \E n \in DOMAIN buffers : buffers[n] = b

\* The Match Data record is in its cleared state.
Cleared ==
    /\ matchData = <<>>
    /\ matchString = <<>>
    /\ matchInString = FALSE
    /\ matchBuffer = Nil

\* C1: in every state, every buffer's point lies within [0, len(text)].
C1_PointInRange ==
    \A b \in 1..Len(heap) : heap[b].point >= 0 /\ heap[b].point <= Len(heap[b].text)

\* The document d with only the windows W left in its table.
Without(d, W) == [d EXCEPT !.windows = [id \in W |-> d.windows[id]]]

\* Resolving the selected window of d yields a window of the table that has a
\* buffer and is the selected one afterwards.
Resolvable(d) ==
    \A s \in selectedWindow(d) :
        /\ s.w \in DOMAIN s.d.windows
        /\ s.d.windows[s.w].buffer # Nil
        /\ s.d.selectedWindowID = s.w

\* C2: in every state the buffer and window primitives reach, resolving the
\* selected window yields a window that is in the window table and has a
\* non-null buffer.  No primitive removes a window, so the selected id is
\* always in the table; what resolution does with an id that is not there is
\* evaluated on the tables obtained by dropping windows from the current one:
\* it selects a remaining window, or recreates a window+buffer pair when none
\* remains.
C2_SelectedWindowResolvable ==
    /\ selectedWindowID \in DOMAIN windows
    /\ Resolvable(Doc)
    /\ \A W \in SUBSET DOMAIN windows :
          /\ Resolvable(Without(Doc, W))
          /\ selectedWindowID \notin W =>
                \A s \in selectedWindow(Without(Doc, W)) :
                    IF W # {} THEN s.w \in W /\ s.d.windows = Without(Doc, W).windows
                    ELSE /\ DOMAIN s.d.windows = {nextWindowID}
                         /\ "*scratch*" \in DOMAIN s.d.buffers
                         /\ s.d.windows[s.w].buffer = s.d.buffers["*scratch*"]

\* kill-buffer has recreated the window+buffer pair and a window other than
\* the first one is selected.
C2_Witness ==
    /\ last.op = "kill-buffer"
    /\ Cardinality(DOMAIN windows) >= 2
    /\ selectedWindowID > 1

\* What C3 states of one kill-buffer step.
C3_Post(hasArg, arg) ==
    LET name == IF hasArg THEN bufferNameFromArg(arg) ELSE heap[Current].name
        wasCurrent == name \in DOMAIN buffers /\ buffers[name] = Current
        othersRemain == DOMAIN buffers \ {name} # {}
    IN  /\ name \in DOMAIN buffers =>
              \A n \in DOMAIN buffers' : buffers'[n] # buffers[name]
        /\ \A n \in DOMAIN buffers \ {name} :
              n \in DOMAIN buffers' /\ buffers'[n] = buffers[n]
        /\ wasCurrent /\ othersRemain =>
              /\ "*scratch*" \in DOMAIN buffers'
              /\ Current' = buffers'["*scratch*"]
        /\ ~othersRemain =>
              /\ DOMAIN windows' = DOMAIN windows \cup {nextWindowID}
              /\ selectedWindowID' = nextWindowID
              /\ DOMAIN buffers' = {"*scratch*"}
              /\ Current' = buffers'["*scratch*"]
              /\ heap'[Current'].text = <<>>
        /\ Registered(Current)'

\* C3: kill-buffer removes the named buffer from the buffer table; if it was
\* the current buffer and other buffers remain, *scratch* becomes current; if
\* no buffers remain, the initial window+buffer pair is recreated; in every
\* case the current buffer after kill-buffer is in the buffer table.
C3_KillBuffer ==
    [][\A hasArg \in BOOLEAN, arg \in BufferArgs :
          killBufferImpl(hasArg, arg) => C3_Post(hasArg, arg)]_vars

\* What C4 states of one get-buffer-create step.
C4_Post(name) ==
    IF name \in DOMAIN buffers
    THEN /\ last'.ret = buffers[name]
         /\ heap' = heap
         /\ buffers' = buffers
    ELSE /\ last'.ret \notin 1..Len(heap)
         /\ Len(heap') = Len(heap) + 1
         /\ \A b \in 1..Len(heap) : heap'[b] = heap[b]
         /\ heap'[last'.ret].name = name
         /\ heap'[last'.ret].text = <<>>
         /\ heap'[last'.ret].point = 0
         /\ DOMAIN buffers' = DOMAIN buffers \cup {name}
         /\ buffers'[name] = last'.ret
         /\ \A n \in DOMAIN buffers : buffers'[n] = buffers[n]

\* C4: get-buffer-create with a name in the buffer table returns the buffer
\* registered under it, changes no buffer (text, point, keymap, hooks) and adds
\* no entry; with a free name it adds exactly one buffer, empty and at point 0.
C4_GetBufferCreateIdempotent ==
    [][\A name \in BaseNames : getBufferCreateImpl(name) => C4_Post(name)]_vars

\* get-buffer-create has returned a buffer that had text and a moved point.
C4_Witness ==
    /\ last.op = "get-buffer-create"
    /\ Len(heap[last.ret].text) > 0
    /\ heap[last.ret].point > 0

\* What C5 states of one generate-new-buffer step with the base name base.
C5_Post(base) ==
    LET b == last'.ret
        taken == Cardinality(DOMAIN buffers)
    IN  /\ b \notin 1..Len(heap)
        /\ Len(heap') = Len(heap) + 1
        /\ \A n \in DOMAIN buffers : buffers'[n] = buffers[n]
        /\ DOMAIN buffers' = DOMAIN buffers \cup {heap'[b].name}
        /\ heap'[b].name \notin DOMAIN buffers
        /\ buffers'[heap'[b].name] = b
        /\ IF base \notin DOMAIN buffers
           THEN heap'[b].name = base
           ELSE \E n \in 2..(taken + 1) :
                   /\ heap'[b].name = base \o "<" \o ToString(n) \o ">"
                   /\ \A k \in 2..(n - 1) :
                         (base \o "<" \o ToString(k) \o ">") \in DOMAIN buffers

\* C5: generate-new-buffer(base) registers a new buffer object under a name
\* that was free: base itself if free, otherwise base<n> for the smallest
\* n >= 2 with base<n> free, an n that is at most one more than the number of
\* buffers in the table.
C5_GenerateNewBuffer ==
    [][generateNewBufferImpl("game") => C5_Post("game")]_vars

\* With "game" and "game<2>" in the table the call has returned "game<3>".
C5_Witness ==
    /\ last.op = "generate-new-buffer"
    /\ heap[last.ret].name = "game<3>"
    /\ {"game", "game<2>"} \subseteq DOMAIN buffers

\* What C6 states of set-window-configuration taking the document d to r.
C6_Restored(d, cfg, r) ==
    /\ \A id \in DOMAIN cfg.bufferByWindowID :
          LET name == cfg.bufferByWindowID[id]
          IN  /\ id \in DOMAIN r.windows
              /\ name \in DOMAIN r.buffers
              /\ r.windows[id].buffer = r.buffers[name]
              /\ name \in DOMAIN d.buffers => r.buffers[name] = d.buffers[name]
    /\ r.selectedWindowID = IF cfg.selectedWindowID \in DOMAIN r.windows
                            THEN cfg.selectedWindowID
                            ELSE d.selectedWindowID
    /\ \A id \in DOMAIN d.windows \ DOMAIN cfg.bufferByWindowID :
          id \in DOMAIN r.windows /\ r.windows[id] = d.windows[id]
    /\ DOMAIN r.windows = DOMAIN d.windows \cup DOMAIN cfg.bufferByWindowID
    /\ \A id \in DOMAIN r.windows : r.nextWindowID > id

\* C6: set-window-configuration rebinds every remembered window to the buffer
\* registered under the remembered name, creating the buffer if the name is
\* free, selects the remembered window only if its id is in the table
\* afterwards, leaves the windows outside the snapshot unchanged and keeps the
\* next window id above every id of the table.  No primitive removes a
\* window, so the recreation of a remembered id that is missing is evaluated
\* on the tables obtained by dropping windows from the current one.
C6_SetWindowConfiguration ==
    [][\A cfg \in configs :
          setWindowConfigurationImpl(cfg) =>
              /\ C6_Restored(Doc, cfg, Doc')
              /\ \A W \in SUBSET DOMAIN windows :
                    C6_Restored(Without(Doc, W), cfg,
                                SetWindowConfiguration(Without(Doc, W), cfg))]_vars

\* set-window-configuration has created the remembered buffer anew: the
\* selected window shows the newest buffer object, which carries the name of
\* an older object that was killed.
C6_Witness ==
    /\ last.op = "set-window-configuration"
    /\ Current = Len(heap)
    /\ Registered(Current)
    /\ \E i \in 1..(Len(heap) - 1) : heap[i].name = heap[Current].name

\* The sparse binding of the key made of the one character c.
SparseBinding(km, c) ==
    IF <<c>> \in DOMAIN km.bindings THEN km.bindings[<<c>>] ELSE "nil"

\* C7: for every keymap that carries a dense table and every single-character
\* key c, the sparse binding of c equals entry code(c) of the dense table.
C7_SparseDenseAgree ==
    \A m \in DOMAIN keymaps :
        keymaps[m].fullMap # <<>> =>
            \A c \in {97, 98, 233} :
                SparseBinding(keymaps[m], c) = keymaps[m].fullMap[c + 1]

\* The operations C8 names.
MatchOps ==
    {"search-forward", "search-backward", "looking-at", "re-search-forward",
     "string-match", "set-match-data"}

\* C8: every match-affecting call that returns leaves a Match Data record
\* that is its own and holds nothing of an earlier match: after a buffer
\* search the record is cleared or is a buffer record remembering the current
\* buffer, and it is cleared when the search fails; after string-match it is
\* cleared or is a string record with no buffer; after set-match-data it is
\* cleared or is a buffer record remembering the current buffer.
C8_MatchDataOverwritten ==
    [][(last'.op \in MatchOps /\ ~panicked') =>
          LET op == last'.op
              ok == last'.ret # 0
              bufferRecord == /\ matchData' # <<>>
                              /\ matchInString' = FALSE
                              /\ matchString' = <<>>
                              /\ matchBuffer' = Current'
              stringRecord == /\ matchData' # <<>>
                              /\ matchInString' = TRUE
                              /\ matchBuffer' = Nil
          IN  IF op = "set-match-data"
              THEN Cleared' \/ bufferRecord
              ELSE IF op = "string-match"
              THEN Cleared' \/ stringRecord
              ELSE IF ok THEN Cleared' \/ bufferRecord ELSE Cleared']_vars

\* The 0-based starts of the occurrences of needle in text[p, limit).
Occurrences(text, needle, p, limit) ==
    {i \in p..(limit - Len(needle)) : Slice(text, i, i + Len(needle)) = needle}

\* What C9 states of one search-forward step.
C9_Post(needle, hasLimit, limitArg) ==
    LET buf == heap[Current]
        limit == IF hasLimit THEN Min(Max(limitArg - 1, 0), Len(buf.text))
                 ELSE Len(buf.text)
        occ == Occurrences(buf.text, needle, buf.point, limit)
    IN  IF occ # {}
        THEN LET start == CHOOSE i \in occ : \A j \in occ : i <= j
                 end == start + Len(needle)
             IN  /\ heap'[Current].point = end
                 /\ matchData' = <<start + 1, end + 1>>
                 /\ matchInString' = FALSE
                 /\ matchBuffer' = Current
                 /\ last'.ret = end + 1
        ELSE /\ last'.ret = 0
             /\ heap'[Current].point = buf.point
             /\ Cleared'

\* C9: search-forward of a non-empty needle from point p: if the needle occurs
\* in text[p, limit), point becomes the index just after the first occurrence
\* and Match Data the buffer pair (start+1, end+1) of it; otherwise the result
\* is nil, point is unchanged and Match Data is cleared.
C9_SearchForward ==
    [][\A needle \in Needles \ {<<>>}, limitArg \in OptPositions :
          (searchForwardImpl(needle, limitArg # NoArg, limitArg) /\ ~panicked') =>
              C9_Post(needle, limitArg # NoArg, limitArg)]_vars

\* C10: after a successful re-search-forward point + 1 equals the recorded end
\* of group 0 and point does not exceed the limit, in characters; after a
\* failed one point is unchanged and Match Data is cleared.
C10_ReSearchForward ==
    [][\A pat \in Patterns, limitArg \in OptPositions :
          (searchForwardRegexpImpl(pat, limitArg # NoArg, limitArg) /\ ~panicked') =>
              LET buf == heap[Current]
                  limit == IF limitArg # NoArg
                           THEN Min(Max(limitArg - 1, 0), Len(buf.text))
                           ELSE Len(buf.text)
              IN  IF last'.ret # 0
                  THEN /\ Len(matchData') >= 2
                       /\ heap'[Current].point + 1 = matchData'[2]
                       /\ heap'[Current].point <= limit
                       /\ matchInString' = FALSE
                       /\ matchBuffer' = Current
                  ELSE /\ heap'[Current].point = buf.point
                       /\ Cleared']_vars

\* What C11 states of one looking-at step with the pattern pat.
C11_Post(pat) ==
    LET buf == heap[Current]
        re == regexpCompile(pat)
        here == /\ re.ok
                /\ buf.point <= Len(buf.text)
                /\ MatchHere(re.items, 1,
                             Slice(buf.text, buf.point, Len(buf.text)), 0).ok
    IN  /\ heap'[Current].text = buf.text
        /\ heap'[Current].point = buf.point
        /\ IF here
           THEN /\ last'.ret = 1
                /\ Len(matchData') >= 2
                /\ matchData'[1] = buf.point + 1
                /\ matchInString' = FALSE
                /\ matchBuffer' = Current
           ELSE /\ last'.ret = 0
                /\ Cleared'

\* C11: looking-at succeeds only if the pattern matches starting exactly at
\* point, and then group 0 of Match Data starts at point + 1; if the pattern
\* matches only later or not at all the result is false and Match Data is
\* cleared; in both outcomes the buffer's text and point are unchanged.
C11_LookingAt ==
    [][\A pat \in Patterns : lookingAtImpl(pat) => C11_Post(pat)]_vars

\* The searches that record a buffer match.
BufferSearches == {"search-forward", "search-backward", "looking-at", "re-search-forward"}

\* The call before this one was a buffer search that found a match and
\* recorded it for the current buffer.
AfterBufferMatch ==
    /\ last.op \in BufferSearches
    /\ last.matched
    /\ matchBuffer = Current

\* What C12 states of one replace-match step that replaces group 0.
C12_Post(repl, literal) ==
    LET text == heap[Current].text
        s == matchData[1] - 1
        e == matchData[2] - 1
        groups == [i \in 1..(Len(matchData) \div 2) |->
                     IF matchData[2 * i - 1] < 0 \/ matchData[2 * i] < 0 THEN <<>>
                     ELSE EncodeString(Slice(text, matchData[2 * i - 1] - 1,
                                             matchData[2 * i] - 1))]
        new == DecodeString(IF literal THEN EncodeString(repl)
                            ELSE expandReplacementTemplate(EncodeString(repl), groups))
    IN  /\ 0 <= s /\ s <= e /\ e <= Len(text)
        /\ heap'[Current].text = Slice(text, 0, s) \o new \o Slice(text, e, Len(text))
        /\ heap'[Current].point = s + Len(new)
        /\ Cleared'

\* C12: replace-match without a source string, right after a successful
\* buffer match, replaces exactly the matched span, which is the span of the
\* buffer's text that the match recorded as group 0, with the expanded
\* replacement, leaves the text before and after it unchanged, puts point at
\* the end of the inserted text and clears Match Data.
C12_ReplaceMatchInBuffer ==
    [][\A repl \in Templates, literal \in BOOLEAN :
          (AfterBufferMatch /\ ~panicked'
             /\ replaceMatchImpl(repl, literal, FALSE, <<97, 233>>, 0)) =>
              C12_Post(repl, literal)]_vars

\* The forms an evaluation went through, in order.
Evaluated(trace) == [i \in 1..Len(trace) |-> trace[i].form]

\* What C13 states of the forms of CatchForms: a constant yields its value, a
\* throw leaves with its tag and value, and a catch ends at the first body
\* form that throws: with the thrown value if the thrown tag equals its own
\* evaluated tag, with the throw itself otherwise.  seen lists the forms
\* evaluated.
RECURSIVE C13_Unwind(_)
RECURSIVE C13_Body(_, _, _, _)
C13_Body(body, tag, result, seen) ==
    IF body = <<>> THEN [ok |-> TRUE, val |-> result, seen |-> seen]
    ELSE LET r == C13_Unwind(Head(body))
         IN  IF r.ok THEN C13_Body(Tail(body), tag, r.val, seen \o r.seen)
             ELSE IF r.tag = tag
             THEN [ok |-> TRUE, val |-> r.val, seen |-> seen \o r.seen]
             ELSE [r EXCEPT !.seen = seen \o @]

C13_Unwind(form) ==
    IF form.op = "const" THEN [ok |-> TRUE, val |-> form.v, seen |-> <<form>>]
    ELSE IF form.op = "throw"
    THEN [ok |-> FALSE, val |-> form.value, tag |-> form.tag, seen |-> <<form>>]
    ELSE C13_Body(form.body, form.tag.v, EmptyCons, <<form, form.tag>>)

C13_Post(form) ==
    LET r == C13_Unwind(form)
    IN  /\ last'.ok = r.ok
        /\ Evaluated(last'.trace) = r.seen
        /\ IF r.ok THEN last'.val = r.val
           ELSE /\ last'.err.kind = "throw"
                /\ last'.err.name = featureName(r.tag)
                /\ last'.err.data = r.val

\* C13: a throw of tag T ends at the nearest enclosing catch whose evaluated
\* tag equals T, which returns the thrown value without evaluating the rest of
\* its body; a catch with another tag lets the throw pass, and a throw that no
\* catch matches leaves the outermost form as a failure.
C13_CatchThrow == [][\A form \in CatchForms : Evaluate(form) => C13_Post(form)]_vars

\* The parent chain of the condition c: c itself and its ancestors up to error,
\* as the set reached from c by following the registered parents.
C14_Up(S) ==
    (S \cup {errorParents[x] : x \in (S \ {"error"}) \cap DOMAIN errorParents}) \ {""}

C14_Chain(c) == C14_Up(C14_Up(C14_Up(C14_Up({c}))))

\* What C14 states of a clause spec and a signalled condition; in a list the
\* name t counts as it does alone.
C14_Names(v, c) == SymbolP(v) /\ (v.sym = "t" \/ v.sym \in C14_Chain(c))

C14_Matches(spec, c) ==
    IF ListP(spec) THEN \E i \in 1..Len(spec.list) : C14_Names(spec.list[i], c)
    ELSE C14_Names(spec, c)

C14_Conditions == {"error", "quit", "my-err", "sub-err", "undefined-err"}

C14_Specs ==
    HandlerSpecs \cup {Intern(c) : c \in C14_Conditions}
        \cup {List(<<Intern("t")>>), List(<<IntegerWithValue(1), Intern("error")>>),
              EmptyCons}

\* The last step evaluated a condition-case whose protected form signals a
\* condition.
C14_Signalled ==
    /\ last.op = "eval"
    /\ last.form.op = "condition-case"
    /\ last.form.body.op = "signal"
    /\ SymbolP(last.form.body.cond)

RECURSIVE C15_Expect(_)
C15_Expect(form) ==
    IF form.op = "const"
    THEN [ok |-> TRUE, val |-> form.v, err |-> NoError, seen |-> <<form>>]
    ELSE IF form.op = "throw"
    THEN [ok |-> FALSE, val |-> EmptyCons, seen |-> <<form>>,
          err |-> [kind |-> "throw", name |-> form.tag.sym, data |-> form.value]]
    ELSE IF form.op = "signal"
    THEN [ok |-> FALSE, val |-> EmptyCons, seen |-> <<form>>,
          err |-> IF SymbolP(form.cond)
                  THEN [kind |-> "signal", name |-> form.cond.sym, data |-> form.data]
                  ELSE [kind |-> "error", name |-> "signal expects condition symbol",
                        data |-> EmptyCons]]
    ELSE LET b == C15_Expect(form.body)
             hits == {i \in 1..Len(form.handlers) :
                        conditionCaseMatches(form.handlers[i].spec, ErrCond(b.err))}
             first == CHOOSE i \in hits : \A j \in hits : i <= j
             body == form.handlers[first].body
         IN  IF b.ok \/ hits = {} THEN [b EXCEPT !.seen = <<form>> \o @]
             ELSE [ok |-> TRUE, err |-> NoError, seen |-> <<form>> \o b.seen \o body,
                   val |-> IF body[Len(body)].op = "const" THEN body[Len(body)].v
                           ELSE conditionCaseErrorObject(ErrCond(b.err), b.err)]

\* C15: when the protected form of a condition-case succeeds, its value is the
\* value of the form and no handler body is evaluated; when it fails, the body
\* of the first clause that matches, and of no other, is evaluated and gives
\* the value; when no clause matches, the failure leaves the form as it came:
\* same kind, same condition name or tag, same data.
C15_ConditionCase ==
    (last.op = "eval" /\ last.form.op = "condition-case") =>
        LET r == C15_Expect(last.form)
        IN  /\ last.ok = r.ok
            /\ last.val = r.val
            /\ last.err = r.err
            /\ Evaluated(last.trace) = r.seen

\* The protected form signalled sub-err, the first clause did not match and
\* the second did.
C15_Witness ==
    /\ last.op = "eval"
    /\ last.form = ConditionCase("nil", Signal(Intern("sub-err"), IntegerWithValue(7)),
                                 <<Clause(Intern("my-err"), <<Const(IntegerWithValue(1))>>),
                                   Clause(List(<<Intern("quit"), Intern("sub-err")>>),
                                          <<Const(IntegerWithValue(2))>>)>>)
    /\ last.ok
    /\ last.val = IntegerWithValue(2)

\* The forms the form evaluated last has evaluated itself, not through another
\* form, in order.
C16_Direct(e) == e.depth = 1

C16_Parts == Evaluated(SelectSeq(last.trace, C16_Direct))

\* C16: unwind-protect evaluates its protected form and then each cleanup form
\* once, in order, whether the protected form returned, signalled or threw and
\* whether or not an earlier cleanup form failed; the failure of the protected
\* form leaves the form, else the first failure of a cleanup form, else the
\* value of the protected form.
C16_UnwindProtect ==
    (last.op = "eval" /\ last.form.op = "unwind-protect") =>
        LET form == last.form
            run == C15_Expect(form.protected)
            failed == {i \in 1..Len(form.cleanup) : ~C15_Expect(form.cleanup[i]).ok}
            first == CHOOSE i \in failed : \A j \in failed : i <= j
        IN  /\ C16_Parts = <<form.protected>> \o form.cleanup
            /\ IF ~run.ok THEN ~last.ok /\ last.err = run.err
               ELSE IF failed # {}
               THEN ~last.ok /\ last.err = C15_Expect(form.cleanup[first]).err
               ELSE last.ok /\ last.val = run.val

\* The protected form threw, the first cleanup form signalled, the second was
\* evaluated all the same, and the throw left the form.
C16_Witness ==
    /\ last.op = "eval"
    /\ last.form = UnwindProtect(Throw(Intern("k"), IntegerWithValue(42)),
                                 <<Signal(Intern("quit"), EmptyCons),
                                   Const(IntegerWithValue(1))>>)
    /\ ~last.ok
    /\ last.err = throwSignal("k", IntegerWithValue(42))
    /\ Len(last.trace) = 4

\* The name with-temp-buffer gave its buffer, when the form evaluated last is
\* a with-temp-buffer: the name of the buffer allocated at its entry.
C17_TempName == TempName(Doc)

\* What C17 states of one evaluation of a scoped-buffer form.
C17_Post(form) ==
    /\ windows'[selectedWindowID'].buffer = Current
    /\ form.op = "with-temp-buffer" => C17_TempName \notin DOMAIN buffers'

\* C17: when with-current-buffer, save-current-buffer or with-temp-buffer is
\* left, by a value, a signal or a throw, the buffer of the selected window is
\* the buffer that was current when the form was entered, and the temporary
\* buffer of with-temp-buffer is no longer in the buffer table.
C17_ScopedBuffer ==
    [][(last'.op = "eval" /\ last'.form \in ScopedForms) => C17_Post(last'.form)]_vars

\* The value of a constant, a variable or a sum in a scope, a function from
\* names to values; a name the scope lacks evaluates as env.ValueOf leaves it.
RECURSIVE C18_Value(_, _)
C18_Value(form, scope) ==
    IF form.op = "const" THEN [ok |-> TRUE, val |-> form.v]
    ELSE IF form.op = "var" THEN [ok |-> TRUE, val |-> ValueOf(<<scope>>, form.name)]
    ELSE LET a == C18_Value(form.a, scope)
             b == C18_Value(form.b, scope)
         IN  IF a.ok /\ b.ok /\ IntegerP(a.val) /\ IntegerP(b.val)
             THEN [ok |-> TRUE, val |-> IntegerWithValue(a.val.int + b.val.int)]
             ELSE [ok |-> FALSE, val |-> EmptyCons]

\* The scope of the body: each initializer is evaluated in the outer scope for
\* let and in the scope built so far for let*; a name without an initializer
\* is nil.
RECURSIVE C18_Scope(_, _, _, _)
C18_Scope(bindings, outer, scope, sequential) ==
    IF bindings = <<>> THEN [ok |-> TRUE, scope |-> scope]
    ELSE LET b == Head(bindings)
             v == IF b.init = <<>> THEN [ok |-> TRUE, val |-> EmptyCons]
                  ELSE C18_Value(b.init[1], IF sequential THEN scope ELSE outer)
         IN  IF ~v.ok THEN [ok |-> FALSE, scope |-> scope]
             ELSE C18_Scope(Tail(bindings), outer, MapPut(scope, b.name, v.val), sequential)

C20_Bound(name) == name \in DOMAIN env

C20_DefvarKeeps ==
    [][(last'.op = "eval" /\ last'.form.op = "defvar" /\ C20_Bound(last'.form.name))
          => env' = env]_vars

\* C19: a call of a defun-defined function with fewer arguments than its
\* required parameters, or with more than required plus optional when it has
\* no rest parameter, fails before the body is evaluated, and the failure
\* reports minimum = the number of required parameters, exact = the function
\* has neither optional nor rest parameters, received = the argument count.
\* The failure is a text: "at least" before the number says the number is a
\* minimum only.
C19_Markers(params) == {i \in 1..Len(params) : params[i] \in {"&optional", "&rest"}}

C19_Required(params) ==
    Cardinality({i \in 1..Len(params) : \A j \in C19_Markers(params) : i < j})

C19_HasRest(params) == \E i \in 1..Len(params) : params[i] = "&rest"

C19_Optional(params) ==
    Cardinality({i \in 1..Len(params) :
                    /\ i \notin C19_Markers(params)
                    /\ \E j \in 1..(i - 1) : params[j] = "&optional"
                    /\ \A j \in 1..(i - 1) : params[j] # "&rest"})

C19_Report(name, minimum, exact, received) ==
    name \o " expected " \o (IF exact THEN "" ELSE "at least ") \o ToString(minimum)
         \o " parameters, received " \o ToString(received)

C19_BodyEvaluated == \E i \in 1..Len(last.trace) : last.trace[i].form.op = "var"

C19_ArityFailure ==
    (/\ last.op = "eval"
     /\ last.form.op = "call"
     /\ last.form.name \in DOMAIN env
     /\ FunctionOrPrimitiveP(env[last.form.name]))
        => LET params == env[last.form.name].params
               n == Len(last.form.args)
               R == C19_Required(params)
               O == C19_Optional(params)
           IN  (n < R \/ (~C19_HasRest(params) /\ n > R + O))
                   => /\ ~last.ok
                      /\ ~C19_BodyEvaluated
                      /\ ErrorText(last.err)
                            = <<C19_Report(last.form.name, R,
                                           O = 0 /\ ~C19_HasRest(params), n)>>

\* C30: template expansion maps \& to the whole match, \N to the Nth capture
\* (empty if there is none), \\ to one backslash and any other escaped
\* character to itself, copies unescaped characters unchanged, and with the
\* literal flag the replacement is the template itself.
\* The pieces of a template: a backslash with the byte after it, or one byte.
RECURSIVE C30_Pieces(_)
C30_Pieces(t) ==
    IF t = <<>> THEN <<>>
    ELSE IF t[1] = 92 /\ Len(t) >= 2
    THEN <<SubSeq(t, 1, 2)>> \o C30_Pieces(SubSeq(t, 3, Len(t)))
    ELSE <<SubSeq(t, 1, 1)>> \o C30_Pieces(Tail(t))

C30_Capture(groups, n) == IF n + 1 \in DOMAIN groups THEN groups[n + 1] ELSE <<>>

C30_Piece(p, groups) ==
    IF Len(p) = 1 THEN p
    ELSE IF p[2] = 38 THEN C30_Capture(groups, 0)
    ELSE IF p[2] \in 48..57 THEN C30_Capture(groups, p[2] - 48)
    ELSE <<p[2]>>

RECURSIVE C30_Concat(_)
C30_Concat(ss) == IF ss = <<>> THEN <<>> ELSE Head(ss) \o C30_Concat(Tail(ss))

C30_Expected(t, groups) ==
    LET ps == C30_Pieces(t)
    IN  C30_Concat([i \in 1..Len(ps) |-> C30_Piece(ps[i], groups)])

C30_TemplateExpansion ==
    last.op = "replacement"
        => last.str = IF last.literal THEN EncodeString(last.repl)
                      ELSE C30_Expected(EncodeString(last.repl), last.groups)

C30_Witness ==
    /\ last.op = "replacement"
    /\ ~last.literal
    /\ last.repl = <<92, 49, 233>>
    /\ last.groups = <<<<97, 98>>, <<195, 169>>>>
    /\ last.str = <<195, 169, 195, 169>>

\* C27: the condition hierarchy stays acyclic: following the parent of a
\* condition name, then the parent of that, never comes back to a name
\* already visited.
RECURSIVE C27_Returns(_, _)
C27_Returns(c, visited) ==
    IF c = "" \/ c \notin DOMAIN errorParents THEN FALSE
    ELSE IF c \in visited THEN TRUE
    ELSE C27_Returns(errorParents[c], visited \cup {c})

C27_Acyclic == \A c \in DOMAIN errorParents : ~C27_Returns(c, {})

\* C21: no cl-loop makes more turns than the hard cap, every step of a loop
\* ends it or counts one more turn, and a loop that nothing else stops
\* (while t sum 1) makes exactly maxIters turns and returns normally.
C21_Uncontrolled == last.op = "cl-loop" /\ last.toks = WhileTrueSum

C21_HardCap ==
    /\ [](loop.iter <= maxIters)
    /\ [][loop.active => (~loop'.active \/ loop'.iter = loop.iter + 1)]_vars
    /\ [](C21_Uncontrolled
             => /\ last.ok
                /\ last.iter = maxIters
                /\ last.val = IntegerWithValue(maxIters))

C21_Witness == C21_Uncontrolled /\ last.iter = maxIters

\* C22: for NAME from|upfrom START [by STEP] to|below|downto END binds NAME to
\* START, START+STEP, ... (downto: START, START-STEP, ...), one turn per value,
\* as long as NAME <= END (to), NAME < END (below) or NAME >= END (downto).
C22_Numeric(toks) ==
    /\ toks \in NumericLoops
    /\ Quoted(toks[3]) \in {Intern("from"), Intern("upfrom")}

C22_HasBy(toks) == Quoted(toks[5]) = Intern("by")
C22_Start(toks) == toks[4].v.int
C22_Step(toks) == IF C22_HasBy(toks) THEN toks[6].v.int ELSE 1
C22_Cmp(toks) == IF C22_HasBy(toks) THEN toks[7].name ELSE toks[5].name
C22_End(toks) == IF C22_HasBy(toks) THEN toks[8].v.int ELSE toks[6].v.int

\* The number of values the clause runs through, and the k-th of them.
C22_Count(toks) ==
    LET s == C22_Start(toks)
        e == C22_End(toks)
        d == C22_Step(toks)
        cmp == C22_Cmp(toks)
    IN  IF cmp = "to" THEN (IF s > e THEN 0 ELSE (e - s) \div d + 1)
        ELSE IF cmp = "below" THEN (IF s >= e THEN 0 ELSE (e - 1 - s) \div d + 1)
        ELSE (IF s < e THEN 0 ELSE (s - e) \div d + 1)

C22_Nth(toks, k) ==
    IF C22_Cmp(toks) = "downto" THEN C22_Start(toks) - (k - 1) * C22_Step(toks)
    ELSE C22_Start(toks) + (k - 1) * C22_Step(toks)

C22_NumericClause ==
    /\ (loop.active /\ C22_Numeric(loop.toks) /\ loop.iter >= 1)
          => /\ loop.iter <= C22_Count(loop.toks)
             /\ loop.local["i"] = IntegerWithValue(C22_Nth(loop.toks, loop.iter))
    /\ (last.op = "cl-loop" /\ C22_Numeric(last.toks))
          => /\ last.ok
             /\ last.iter = C22_Count(last.toks)

\* C23: pcase evaluates its subject once and tries its clauses in order; the
\* body of the first clause whose pattern matches is the only body evaluated
\* and gives the value, with the subject bound to the binding symbol of the
\* pattern (or of the first matching sub-pattern of an or pattern); (quote X)
\* matches iff the subject equals X; without a matching clause the value is
\* nil.
\* The sub-patterns of an or pattern that match, and whether a pattern does.
RECURSIVE C23_Matches(_, _)
C23_Matches(pat, v) ==
    IF SymbolP(pat) THEN TRUE
    ELSE IF PairP(pat) /\ pat.list[1] = Intern("quote") THEN pat.list[2] = v
    ELSE IF PairP(pat) /\ pat.list[1] = Intern("or")
    THEN \E k \in 2..Len(pat.list) : C23_Matches(pat.list[k], v)
    ELSE pat = v

\* The binding symbol of a matching pattern, "" if it has none.
RECURSIVE C23_Binds(_, _)
C23_Binds(pat, v) ==
    IF SymbolP(pat) THEN (IF pat.sym \in {"_", "t"} THEN "" ELSE pat.sym)
    ELSE IF PairP(pat) /\ pat.list[1] = Intern("or")
    THEN LET k == CHOOSE k \in 2..Len(pat.list) :
                      /\ C23_Matches(pat.list[k], v)
                      /\ \A j \in 2..(k - 1) : ~C23_Matches(pat.list[j], v)
         IN  C23_Binds(pat.list[k], v)
    ELSE ""

C23_First(clauses, v) ==
    {i \in 1..Len(clauses) :
        /\ C23_Matches(clauses[i].pat, v)
        /\ \A j \in 1..(i - 1) : ~C23_Matches(clauses[j].pat, v)}

\* The forms evaluated directly by the pcase form, in order.
C23_Direct == [i \in 1..Len(SelectSeq(last.trace, LAMBDA e : e.depth = 1)) |->
                  SelectSeq(last.trace, LAMBDA e : e.depth = 1)[i].form]

C23_Pcase ==
    (last.op = "eval" /\ last.form.op = "pcase" /\ last.form.subject.op = "const")
        => LET v == last.form.subject.v
               clauses == last.form.clauses
               first == C23_First(clauses, v)
           IN  /\ last.ok
               /\ first = {} => /\ last.val = EmptyCons
                                /\ C23_Direct = <<last.form.subject>>
               /\ \A i \in first :
                     /\ C23_Direct = <<last.form.subject>> \o clauses[i].body
                     /\ last.val = IF C23_Binds(clauses[i].pat, v) = "x" THEN v
                                   ELSE EmptyCons

C23_Witness ==
    /\ last.op = "eval"
    /\ last.form.op = "pcase"
    /\ last.form.subject = Const(Intern("a"))
    /\ Len(last.form.clauses) = 2
    /\ last.form.clauses[1].pat = IntegerWithValue(1)
    /\ last.form.clauses[2].pat = OrPattern(<<QuotePattern(Intern("b")), Intern("x")>>)
    /\ last.val = Intern("a")

\* The byte the scanner is about to read, 0 at the end of the source.
C24_Ch == IF scanner.i < Len(scanner.src) THEN scanner.src[scanner.i + 1] ELSE 0

\* The scanner reads a byte of a string or of a comment.
C24_Inside ==
    /\ scanner.status = "scan"
    /\ scanner.i < Len(scanner.src)
    /\ scanner.inString \/ scanner.inComment

\* The scanner is in one state: never in a string and in a comment at once, and
\* the escape flag is only set inside a string.
C24_OneState ==
    /\ ~(scanner.inString /\ scanner.inComment)
    /\ scanner.escaped => scanner.inString

\* A byte of a string or of a comment is copied as it is, nothing else is
\* written, one byte is consumed and the nesting depth stays.
C24_Copied ==
    C24_Inside =>
        /\ scanner'.status = "scan"
        /\ scanner'.out = scanner.out \o <<C24_Ch>>
        /\ scanner'.i = scanner.i + 1
        /\ scanner'.vectorDepth = scanner.vectorDepth
        /\ scanner'.opened = scanner.opened
        /\ scanner'.closed = scanner.closed

\* A string ends only at a quote that is not escaped, and such a quote ends
\* it; a comment ends at a newline and only there.
C24_Ends ==
    /\ C24_Inside /\ scanner.inString =>
          (scanner'.inString <=> (scanner.escaped \/ C24_Ch # 34))
    /\ C24_Inside /\ scanner.inComment =>
          (scanner'.inComment <=> C24_Ch # 10)

\* C24: the scanner is in exactly one of its states (default, in a string with
\* its escape flag, in a comment) at every position; the bytes of strings and
\* of comments are copied to the output as they are, no rewrite fires inside
\* them and they never change the vector nesting depth; an escaped quote does
\* not end a string and a comment ends only at a newline.
C24_Verbatim ==
    /\ []C24_OneState
    /\ [][C24_Copied /\ C24_Ends]_vars

\* An escaped quote and a closing bracket were read inside a string, the string
\* went on and ended at the next quote, and the source was accepted.
C24_Witness ==
    /\ scanner.status = "ok"
    /\ scanner.src = <<34, 97, 92, 34, 93, 98, 34>>
    /\ scanner.out = scanner.src
    /\ scanner.opened = 0

\* The bytes of the character literal s starts with: the question mark and one
\* escape (three octal digits or one byte after the backslash), one encoded
\* character, or one byte that is not UTF-8.
C25_CharExtent(s) ==
    IF Len(s) >= 3 /\ s[2] = 92
    THEN IF Len(s) >= 5 /\ isOctal(s[3]) /\ isOctal(s[4]) /\ isOctal(s[5]) THEN 5 ELSE 3
    ELSE IF /\ Len(s) >= 3 /\ s[2] >= 194 /\ s[2] < 224
            /\ s[3] >= 128 /\ s[3] < 192
    THEN 3
    ELSE 2

\* The turn the scanner is about to take must fail: a closing bracket in the
\* default state at depth 0, or the end of the source in a string or at a
\* depth above 0.
C25_MustFail ==
    IF scanner.i >= Len(scanner.src)
    THEN scanner.inString \/ scanner.vectorDepth > 0
    ELSE /\ ~scanner.inString /\ ~scanner.inComment
         /\ scanner.src[scanner.i + 1] = 93
         /\ scanner.vectorDepth = 0

\* The depth is the number of brackets opened and not yet closed, never
\* negative, and 0 when the source is accepted.
C25_Depth ==
    /\ scanner.vectorDepth >= 0
    /\ scanner.vectorDepth = scanner.opened - scanner.closed
    /\ scanner.status = "ok" => scanner.opened = scanner.closed

\* What a character literal consumes is the literal: no byte after it.
C25_LiteralOnly ==
    scanner.rule = "char" =>
        scanner.i - scanner.from = C25_CharExtent(Suffix(scanner.src, scanner.from))

\* C25: the preprocessor fails exactly when, outside strings, comments and
\* character literals, a closing bracket occurs at depth 0, or the source ends
\* at a depth above 0 or inside a string; the depth is never negative, and in
\* an accepted source every opening bracket was closed by one closing bracket.
C25_ParseErrors ==
    /\ [](C25_Depth /\ C25_LiteralOnly)
    /\ [][scanner.status = "scan" => (scanner'.status = "error" <=> C25_MustFail)]_vars

\* The same without the extent of character literals.
C25_StepsOnly ==
    /\ []C25_Depth
    /\ [][scanner.status = "scan" => (scanner'.status = "error" <=> C25_MustFail)]_vars

\* [?X] with X a byte that is not UTF-8 is rejected: the closing bracket was
\* consumed with the character literal.
C25_Swallowed ==
    /\ scanner.status = "error"
    /\ scanner.src = <<91, 63, 255, 93>>
    /\ scanner.err = "unmatched [ in elisp source"

\* The literal the last rule rewrote.
C26_Literal == SubSeq(scanner.src, scanner.from + 1, Min(scanner.i, Len(scanner.src)))

\* The number a sequence of digits writes in a base.
RECURSIVE C26_Number(_, _)
C26_Number(digits, base) ==
    IF digits = <<>> THEN 0
    ELSE C26_Number(SubSeq(digits, 1, Len(digits) - 1), base) * base
         + DigitValue(digits[Len(digits)])

\* The escapes the preprocessor knows by name: n t r f b and the backslash.
C26_Escapes == (110 :> 10) @@ (116 :> 9) @@ (114 :> 13) @@ (102 :> 12) @@ (98 :> 8) @@ (92 :> 92)

\* The literals the rewriting is specified for: one ASCII character, a named
\* escape, three octal digits, a character of two bytes, a radix literal.
C26_Covered(lit) ==
    \/ Len(lit) = 2 /\ lit[1] = 63 /\ lit[2] < 128
    \/ Len(lit) = 3 /\ lit[1] = 63 /\ lit[2] = 92 /\ lit[3] \in DOMAIN C26_Escapes
    \/ Len(lit) = 5 /\ lit[1] = 63 /\ lit[2] = 92
    \/ Len(lit) = 3 /\ lit[1] = 63 /\ lit[2] >= 194 /\ lit[2] < 224
                    /\ lit[3] >= 128 /\ lit[3] < 192
    \/ lit[1] = 35

\* The value of a covered literal.
C26_Value(lit) ==
    IF lit[1] = 35
    THEN C26_Number(SubSeq(lit, 3, Len(lit)),
                    IF lit[2] \in {120, 88} THEN 16 ELSE IF lit[2] \in {111, 79} THEN 8 ELSE 2)
    ELSE IF Len(lit) = 2 THEN lit[2]
    ELSE IF Len(lit) = 5 THEN C26_Number(SubSeq(lit, 3, 5), 8)
    ELSE IF lit[2] = 92 THEN C26_Escapes[lit[3]]
    ELSE (lit[2] - 192) * 64 + (lit[3] - 128)

C26_AllDigits(bytes) == bytes # <<>> /\ \A k \in 1..Len(bytes) : isDigit(bytes[k])

\* Preprocessing the text again leaves it as it is.
C26_Fixed(bytes) ==
    /\ preprocessElisp(bytes).status = "ok"
    /\ preprocessElisp(bytes).out = bytes

\* ?a, ?\n, #x1F, #o17 and #b101 become 97, 10, 31, 15 and 5.
C26_Examples ==
    /\ preprocessElisp(<<63, 97>>).out = <<57, 55>>
    /\ preprocessElisp(<<63, 92, 110>>).out = <<49, 48>>
    /\ preprocessElisp(<<35, 120, 49, 70>>).out = <<51, 49>>
    /\ preprocessElisp(<<35, 111, 49, 55>>).out = <<49, 53>>
    /\ preprocessElisp(<<35, 98, 49, 48, 49>>).out = <<53>>

C29_Missed ==
    /\ last.op \in {"eval", "load"}
    /\ \E k \in 1..Len(last.trace) : last.trace[k].form \in {GoneCall, GoneCallFn}

\* The failure names the name that has no binding.
C29_Named(e) ==
    e.name \in {"function or macro expected for gone.",
                "call-fn unknown function: gone",
                "needed elisp function is not implemented: gone"}

\* C29: a failure caused by a name without a binding is never swallowed: an
\* evaluation that reached such a call, directly, in a loaded file or under
\* ignore-errors, returns a failure that names the name.
C29_NeverSwallowed == C29_Missed => ~last.ok /\ C29_Named(last.err)

\* The same for the evaluations in which no ignore-errors was entered.
C29_Propagated ==
    C29_Missed /\ (\A k \in 1..Len(last.trace) : last.trace[k].form.op # "ignore-errors")
        => ~last.ok /\ C29_Named(last.err)

\* (ignore-errors (call-fn 'gone)) returned nil and no failure.
C29_Swallowed ==
    /\ last.op = "eval"
    /\ last.form = IgnoreErrors(<<GoneCallFn>>)
    /\ last.ok
    /\ last.val = EmptyCons

\* A step of the tick in which one timer is visited.
C28_Visit == tick.running /\ tick'.running /\ tick'.pending # tick.pending

\* The visit of a timer whose callback fails marks that timer inactive, leaves
\* every other timer as it is and keeps the remaining timers to be visited;
\* the process goes on.
C28_FailureHandled ==
    C28_Visit /\ tick'.visit.failed =>
        LET id == tick'.visit.id
        IN  /\ DOMAIN timers' = DOMAIN timers
            /\ ~timers'[id].active
            /\ \A j \in DOMAIN timers \ {id} : timers'[j] = timers[j]
            /\ tick'.pending = tick.pending \ {id}
            /\ ~panicked'

\* An inactive timer stays inactive and a visit does not call its callback.
C28_StaysOff ==
    \A id \in DOMAIN timers :
        ~timers[id].active =>
            /\ ~timers'[id].active
            /\ C28_Visit /\ tick'.visit.id = id => ~tick'.visit.invoked

\* The tick returns only when every timer was visited.
C28_ReturnsLast == tick.running /\ ~tick'.running => tick.pending = {}

\* C28: a failure of a timer callback, of any kind, aborts neither the tick nor
\* the process: the tick marks exactly that timer inactive, leaves the active
\* flag and the schedule of every other timer unchanged, goes on to the
\* remaining timers and returns; the callback of the timer is not called on
\* later ticks.
C28_TimerFailure ==
    /\ [](tick.running => ENABLED TickStep)
    /\ [][C28_FailureHandled /\ C28_StaysOff /\ C28_ReturnsLast]_vars

\* In one tick the callback of timer 1 failed and was reported, and then the
\* callback of timer 2, which is still active, was called and returned.
C28_Witness ==
    /\ tick.running
    /\ tick.failed = {1}
    /\ ~timers[1].active
    /\ Len(messages) = 1
    /\ tick.visit = [id |-> 2, invoked |-> TRUE, failed |-> FALSE, applied |-> 1,
                     cancelled |-> FALSE]
    /\ timers[2].active

\* The names the walk has visited, as a set.
C33_Visited == {walk.visited[k] : k \in 1..Len(walk.visited)}

\* Some registered name is its own ancestor.
C33_Cyclic == \E c \in DOMAIN errorParents : C27_Returns(c, {})

\* No name is visited twice, and the names seen are the names visited.
C33_Once ==
    /\ Cardinality(C33_Visited) = Len(walk.visited)
    /\ walk.seen = C33_Visited

\* The answer of a finished walk: the handler names t, or a name visited, or
\* error for the condition error.
C33_Answer ==
    walk.status = "done" =>
        /\ walk.result = (\/ walk.spec = "t"
                          \/ walk.spec \in C33_Visited
                          \/ walk.spec = "error" /\ walk.errCond = "error")
        /\ walk.result = conditionNameMatches(walk.spec, walk.errCond)

\* Every turn ends the walk or visits one more name.
C33_Progress ==
    walk.status = "walk" =>
        \/ walk'.status = "done"
        \/ walk'.status = "walk" /\ Len(walk'.visited) = Len(walk.visited) + 1

\* C33: the walk up the parents terminates for every content of the registry,
\* with a cycle or a self-parent too: it visits each name at most once, every
\* turn ends it or visits a new name, and it answers match or no match.
C33_WalkTerminates ==
    /\ [](C33_Once /\ C33_Answer)
    /\ [](walk.status = "walk" => ENABLED walkStep)
    /\ [][C33_Progress]_vars

\* In a registry where my-err and sub-err are each other's parent the walk
\* from my-err for the handler quit visited both names once and answered no
\* match.
C33_Witness ==
    /\ C33_Cyclic
    /\ walk.status = "done"
    /\ walk.spec = "quit"
    /\ walk.visited = <<"my-err", "sub-err">>
    /\ ~walk.result

\* C38: feature loading is guarded against cycles.  The loading set is
\* exactly the set of features whose file a require is loading (empty when
\* no require or load is under way), no feature is loaded by two requires at
\* once, a require starts a load only of a feature neither provided nor
\* loading, a feature becomes provided only by provide, by the end of its
\* file or in shim mode, and every require or load of the program returns.
RequireFrames == {i \in 1..Len(loader.stack) : loader.stack[i].kind = "require"}

C38_Loading == loadingFeatures = {loader.stack[i].name : i \in RequireFrames}

C38_Once ==
    \A i, j \in RequireFrames : loader.stack[i].name = loader.stack[j].name => i = j

C38_Empty == loader.status # "run" => loader.stack = <<>> /\ loadingFeatures = {}

C38_Guard ==
    (Len(loader'.stack) > Len(loader.stack) /\ Head(loader'.stack).kind = "require")
        => /\ Head(loader'.stack).name \notin providedFeatures \cup loadingFeatures
           /\ loader'.loads = Append(IF loader.status = "idle" THEN <<>> ELSE loader.loads,
                                     Head(loader'.stack).name)

C38_NoReload ==
    (/\ loader.status = "run" /\ loader.ret = "none" /\ loader.stack # <<>>
     /\ Head(loader.stack).forms # <<>>
     /\ Head(Head(loader.stack).forms).op = "require"
     /\ Head(Head(loader.stack).forms).name \in providedFeatures \cup loadingFeatures)
        => /\ loader'.stack = loader.stack
           /\ loader'.loads = loader.loads
           /\ loader'.ret = "ok"

C38_ProvidedBy(n) ==
    \/ loader.shim = "on"
    \/ loader.status = "idle" /\ loader' = loader
    \/ /\ loader.status = "run" /\ loader.ret = "none" /\ loader.stack # <<>>
       /\ LET f == Head(loader.stack)
          IN  \/ f.forms = <<>> /\ f.kind = "require" /\ f.name = n
              \/ f.forms # <<>> /\ Head(f.forms) = Provide(n)

C38_Provided ==
    /\ providedFeatures \subseteq providedFeatures'
    /\ \A n \in providedFeatures' \ providedFeatures : C38_ProvidedBy(n)

C38_RequireGuarded ==
    /\ [](C38_Loading /\ C38_Once /\ C38_Empty)
    /\ [][C38_Guard /\ C38_NoReload /\ C38_Provided]_vars
    /\ (loader.status = "run") ~> (loader.status # "run")

\* The file of a is being loaded by a require, b by the require in it, and
\* the require of a in b has returned without a third load.
C38_Witness ==
    /\ loader.status = "run"
    /\ loader.loads = <<"a", "b">>
    /\ Len(loader.stack) = 2
    /\ loader.stack[1].name = "b"
    /\ loader.stack[1].forms = <<Provide("b")>>
    /\ loadingFeatures = {"a", "b"}

\* The configuration that describes the windows as they are.
C31_Snapshot ==
    [selectedWindowID |-> selectedWindowID,
     bufferByWindowID |-> [id \in DOMAIN windows |-> heap[windows[id].buffer].name]]

C31_Captured == last'.op = "current-window-configuration" => configs' = {C31_Snapshot}

C31_Immutable == last'.op # "current-window-configuration" => configs' = configs

C31_Restored ==
    last'.op = "set-window-configuration" =>
        /\ configs # {}
        /\ \A cfg \in configs :
              /\ selectedWindowID' = cfg.selectedWindowID
              /\ \A id \in DOMAIN cfg.bufferByWindowID :
                    LET name == cfg.bufferByWindowID[id]
                    IN  /\ id \in DOMAIN windows'
                        /\ name \in DOMAIN buffers'
                        /\ windows'[id].buffer = buffers'[name]
                        /\ heap'[windows'[id].buffer].name = name

\* C31: a window configuration is an immutable snapshot.  The capture records
\* the selected window id and the buffer name of every window, no later
\* buffer or window primitive changes what was captured, and
\* set-window-configuration makes every captured window show the buffer
\* registered under the captured name and selects the captured window.
C31_ImmutableSnapshot == [][C31_Captured /\ C31_Immutable /\ C31_Restored]_vars

\* After the capture another window was selected and a captured window was
\* given a buffer of another name, and the snapshot can be restored.
C31_Witness ==
    /\ \E cfg \in configs :
          /\ cfg.selectedWindowID # selectedWindowID
          /\ \E id \in DOMAIN cfg.bufferByWindowID :
                heap[windows[id].buffer].name # cfg.bufferByWindowID[id]
          /\ ENABLED setWindowConfigurationImpl(cfg)
    /\ last.op \in {"switch-to-buffer", "set-window-buffer", "select-window"}

\* The buffer of the selected window before and after a step.
C32_Old == heap[windows[selectedWindowID].buffer]

C32_New == heap'[windows[selectedWindowID].buffer]

\* insert of rs at point p: the text is old[0,p) rs old[p,len), the slices
\* taken within the text, and point is p+k.
C32_Inserted(rs) ==
    LET p == C32_Old.point
        old == C32_Old.text
        q == Clamp(p, Len(old))
    IN  /\ C32_New.text = Slice(old, 0, q) \o rs \o Slice(old, q, Len(old))
        /\ C32_New.point = p + Len(rs)

\* delete-region of the clamped range [s,e).
C32_Deleted(startArg, endArg) ==
    LET old == C32_Old.text
        n == Len(old)
        s == Clamp(Min(startArg, endArg) - 1, n)
        e == Clamp(Max(startArg, endArg) - 1, n)
        p == C32_Old.point
    IN  /\ C32_New.text = Slice(old, 0, s) \o Slice(old, e, n)
        /\ C32_New.point = IF p <= s THEN p ELSE IF p <= e THEN s ELSE p - (e - s)

C32_Step ==
    /\ \A rs \in Strings : insertImpl(rs) => C32_Inserted(rs)
    /\ \A startArg \in Positions, endArg \in Positions :
          deleteRegionImpl(startArg, endArg) => C32_Deleted(startArg, endArg)

\* C32: point tracks edits.  insert of k characters at point p yields the
\* text old[0,p) + inserted + old[p,len) and point p+k; delete-region of the
\* clamped range [s,e) removes exactly those characters, leaves point
\* unchanged if point <= s, sets it to s if s < point <= e and decreases it
\* by e-s if point > e.
C32_PointTracksEdits == [][C32_Step]_vars

\* The same for the edits made with point within the text.
C32_InRange ==
    [][(C32_Old.point >= 0 /\ C32_Old.point <= Len(C32_Old.text)) => C32_Step]_vars

\* C34: no window shows a killed buffer.  In every state the buffer and
\* window primitives reach, the buffer of every window of the window table is
\* the buffer registered in the buffer table under its name.
C34_NoKilledBufferShown ==
    \A id \in DOMAIN windows :
        LET b == windows[id].buffer
        IN  /\ b # Nil
            /\ heap[b].name \in DOMAIN buffers
            /\ buffers[heap[b].name] = b

C35_Constructed ==
    \A n \in DOMAIN buffers : heap[buffers[n]].name = n /\ heap[buffers[n]].object

C35_ValidHandles ==
    last.op = "buffer-list" => \A h \in last.handles : h.object # Nil

C35_NoEntryAdded ==
    last'.op = "add-hook" => DOMAIN buffers' = DOMAIN buffers

\* C35: every entry of the buffer table is a fully constructed buffer whose
\* key is its name and whose handle object is not null, buffer-list yields
\* only valid handles, and add-hook adds no entry to the table.
C35_BufferTable ==
    [](C35_Constructed /\ C35_ValidHandles) /\ [][C35_NoEntryAdded]_vars

\* A step of the tick in which the timer id is visited.
C36_Visits(id) == C28_Visit /\ tick'.visit.id = id

\* The callback of a one-shot timer is invoked in one tick at most: the visit
\* that invokes it leaves the timer inactive, and an inactive timer is never
\* active again and never invoked.
C36_OneShot ==
    \A id \in DOMAIN timers :
        /\ (C36_Visits(id) /\ tick'.visit.invoked /\ timers[id].period <= 0)
              => ~timers'[id].active
        /\ ~timers[id].active
              => ~timers'[id].active /\ (C36_Visits(id) => tick'.visit.applied = 0)

\* Once cancel-timer was applied to a timer, its callback is not invoked
\* again: not by a later visit, and not by the visit during which the
\* callback applied it.
C36_Cancel ==
    /\ \A id \in DOMAIN timers :
          (~tick.running /\ ~tick'.running /\ timers'[id] # timers[id])
              => ~timers'[id].active
    /\ \A id \in DOMAIN timers :
          (C36_Visits(id) /\ tick'.visit.cancelled)
              => tick'.visit.applied = 1 /\ ~timers'[id].active

\* A periodic timer whose callback succeeds fires next one period after the
\* time of the tick, and stays active unless its callback cancelled it.
C36_Periodic ==
    \A id \in DOMAIN timers :
        (/\ C36_Visits(id) /\ tick'.visit.invoked /\ ~tick'.visit.failed
         /\ timers[id].period > 0)
            => /\ timers'[id].nextFire = tick.now + timers[id].period
               /\ timers'[id].active = ~tick'.visit.cancelled

\* C36: over any sequence of ticks, the callback of a one-shot timer is
\* invoked in at most one tick and the timer is inactive afterwards; once
\* cancel-timer has been applied to a timer its callback is never invoked
\* again; a periodic timer whose callback succeeds stays active with its next
\* fire time one period past the tick time.
C36_TimerLifecycle == [][C36_OneShot /\ C36_Cancel /\ C36_Periodic]_vars

\* The same without the clause on callbacks that cancel their own timer
\* during the visit.
C36_BetweenTicks ==
    [][/\ C36_OneShot
       /\ C36_Periodic
       /\ \A id \in DOMAIN timers :
             (~tick.running /\ ~tick'.running /\ timers'[id] # timers[id])
                 => ~timers'[id].active]_vars

\* C37: within one tick the callback of a due timer is applied at most once.
C37_AppliedOnce == tick.visit.applied <= 1

\* What C39 states of one replace-match step.
C39_Post(hasString) ==
    /\ (matchInString /\ ~hasString) => heap' = heap
    /\ hasString => heap' = heap /\ UNCHANGED matchVars

\* C39: replace-match respects the string-versus-buffer discriminator of
\* Match Data: after a string match, replace-match without a source string
\* modifies the text and point of no buffer; replace-match with a source
\* string modifies no buffer and no Match Data.
C39_ReplaceMatchFrame ==
    [][\A repl \in Templates, literal \in BOOLEAN, hasString \in BOOLEAN, subexp \in {0, 1} :
          replaceMatchImpl(repl, literal, hasString, <<97, 233>>, subexp)
              => C39_Post(hasString)]_vars

\* The same for replace-match with a source string alone.
C39_WithString ==
    [][\A repl \in Templates, literal \in BOOLEAN, subexp \in {0, 1} :
          replaceMatchImpl(repl, literal, TRUE, <<97, 233>>, subexp)
              => C39_Post(TRUE)]_vars

\* The form is a scoped-buffer form whose body only selects window 1, entered
\* with another window selected; the buffer argument of with-current-buffer
\* is a name.
C40_SelectsOther(form) ==
    /\ form \in ScopedForms
    /\ form.body = <<SelectWindow(1)>>
    /\ selectedWindowID # 1
    /\ form.op = "with-current-buffer" => form.buffer = Const(StringWithValue("game"))

\* C40: the scoped-buffer forms restore the ambient buffer into the window
\* they took it from: when the body of save-current-buffer,
\* with-current-buffer or with-temp-buffer selects a different window, every
\* window of the window table shows on exit the buffer it showed when the
\* form was entered.
C40_WindowsRestored ==
    [][(last'.op = "eval" /\ C40_SelectsOther(last'.form)) =>
          \A id \in DOMAIN windows :
              id \in DOMAIN windows' /\ windows'[id].buffer = windows[id].buffer]_vars

====
